---- MODULE Spec2Model ----
(***************************************************************************)
(* memoirAI: the create_entry workflow of app/http_server.py (captions ->  *)
(* story -> sentiment -> title -> save) over the DynamoDB-backed           *)
(* DatabaseService of app/tools/database_service.py.                       *)
(*                                                                         *)
(* Python text is modelled as a sequence of one-character strings, so that *)
(* startswith, capitalize, split and replace are computed on characters.   *)
(* Python values whose type the code inspects (str, None, dict, number)    *)
(* are records [t, s, n, d]: t the type tag, s the characters of a str,    *)
(* n the value of a number, d the key -> value function of a dict.         *)
(***************************************************************************)
EXTENDS Integers, Sequences, FiniteSets, Bags, TLC

(***************************************************************************)
(* Text literals of the source and sample texts of the external services.  *)
(***************************************************************************)
\* 'Error:'
ErrorPrefix ==
    <<"E", "r", "r", "o", "r", ":">>

\* 'Error: '
ErrorPrefixSp ==
    <<"E", "r", "r", "o", "r", ":", " ">>

\* 'heartwarming'
ToneDefault ==
    <<"h", "e", "a", "r", "t", "w", "a", "r", "m", "i", "n", "g">>

\* 'adventurous'
ToneAdventurous ==
    <<"a", "d", "v", "e", "n", "t", "u", "r", "o", "u", "s">>

\* 'nOSTALGIC'
ToneMixedCase ==
    <<"n", "O", "S", "T", "A", "L", "G", "I", "C">>

\* 'My '
TitlePrefix ==
    <<"M", "y", " ">>

\* ' Memory'
TitleSuffix ==
    <<" ", "M", "e", "m", "o", "r", "y">>

\* ' min'
MinSuffix ==
    <<" ", "m", "i", "n">>

\* 'joyful'
Joyful ==
    <<"j", "o", "y", "f", "u", "l">>

\* 'nostalgic'
Nostalgic ==
    <<"n", "o", "s", "t", "a", "l", "g", "i", "c">>

\* 'adventurous'
Adventurous ==
    <<"a", "d", "v", "e", "n", "t", "u", "r", "o", "u", "s">>

\* 'peaceful'
Peaceful ==
    <<"p", "e", "a", "c", "e", "f", "u", "l">>

\* 'melancholic'
Melancholic ==
    <<"m", "e", "l", "a", "n", "c", "h", "o", "l", "i", "c">>

\* 'excited'
Excited ==
    <<"e", "x", "c", "i", "t", "e", "d">>

\* 'grateful'
Grateful ==
    <<"g", "r", "a", "t", "e", "f", "u", "l">>

\* 'reflective'
Reflective ==
    <<"r", "e", "f", "l", "e", "c", "t", "i", "v", "e">>

\* 'neutral'
Neutral ==
    <<"n", "e", "u", "t", "r", "a", "l">>

\* 'furious'
Furious ==
    <<"f", "u", "r", "i", "o", "u", "s">>

\* 'positive'
Positive ==
    <<"p", "o", "s", "i", "t", "i", "v", "e">>

\* '#808080'
MoodColorGrey ==
    <<"#", "8", "0", "8", "0", "8", "0">>

\* 'Failed to parse sentiment analysis'
ParseFailedMsg ==
    <<"F", "a", "i", "l", "e", "d", " ", "t", "o", " ", "p", "a", "r", "s", "e", " ", "s", "e", "n", "t", "i", "m", "e", "n", "t", " ", "a", "n", "a", "l", "y", "s", "i", "s">>

\* 'Analysis failed: '
AnalysisFailedPrefix ==
    <<"A", "n", "a", "l", "y", "s", "i", "s", " ", "f", "a", "i", "l", "e", "d", ":", " ">>

\* 'Title generation failed: '
TitleFailedPrefix ==
    <<"T", "i", "t", "l", "e", " ", "g", "e", "n", "e", "r", "a", "t", "i", "o", "n", " ", "f", "a", "i", "l", "e", "d", ":", " ">>

\* 'primary_mood'
PrimaryMoodKey ==
    <<"p", "r", "i", "m", "a", "r", "y", "_", "m", "o", "o", "d">>

\* 'timeout'
ExcMsg ==
    <<"t", "i", "m", "e", "o", "u", "t">>

\* 'A dog.'
Caption1 ==
    <<"A", " ", "d", "o", "g", ".">>

\* 'Sunset.'
Caption2 ==
    <<"S", "u", "n", "s", "e", "t", ".">>

\* 'We ran\nfar  away.'
Story1 ==
    <<"W", "e", " ", "r", "a", "n", "\n", "f", "a", "r", " ", " ", "a", "w", "a", "y", ".">>

\* 'Beach Day'
Title1 ==
    <<"B", "e", "a", "c", "h", " ", "D", "a", "y">>

\* 'u1'
User1 ==
    <<"u", "1">>

\* 'u2'
User2 ==
    <<"u", "2">>

\* 'QQ=='
ImageData1 ==
    <<"Q", "Q", "=", "=">>

\* 'Qg=='
ImageData2 ==
    <<"Q", "g", "=", "=">>

\* 'trip'
Context1 ==
    <<"t", "r", "i", "p">>

\* 'ENTRY_'
EntryPrefix ==
    <<"E", "N", "T", "R", "Y", "_">>

\* '2025-08-20T23:24:'
DatePrefix ==
    <<"2", "0", "2", "5", "-", "0", "8", "-", "2", "0", "T", "2", "3", ":", "2", "4", ":">>

\* 'abc12345'
Uuid1 ==
    <<"a", "b", "c", "1", "2", "3", "4", "5">>

\* '0f3e9d7a'
Uuid2 ==
    <<"0", "f", "3", "e", "9", "d", "7", "a">>

\* 'abcdefghijklmnopqrstuvwxyz'
LowerLetters ==
    <<"a", "b", "c", "d", "e", "f", "g", "h", "i", "j", "k", "l", "m", "n", "o", "p", "q", "r", "s", "t", "u", "v", "w", "x", "y", "z">>

\* 'ABCDEFGHIJKLMNOPQRSTUVWXYZ'
UpperLetters ==
    <<"A", "B", "C", "D", "E", "F", "G", "H", "I", "J", "K", "L", "M", "N", "O", "P", "Q", "R", "S", "T", "U", "V", "W", "X", "Y", "Z">>

\* '0123456789'
DigitChars ==
    <<"0", "1", "2", "3", "4", "5", "6", "7", "8", "9">>

\* "object has no attribute 'get'"
AttributeErrorMsg ==
    <<"o", "b", "j", "e", "c", "t", " ", "h", "a", "s", " ", "n", "o", " ", "a", "t", "t", "r", "i", "b", "u", "t", "e", " ", "'", "g", "e", "t", "'">>

\* 'unknown'
Unknown ==
    <<"u", "n", "k", "n", "o", "w", "n">>

\* 'img_'
ImageIdPrefix ==
    <<"i", "m", "g", "_">>

\* 'placeholder://image_'
ImageUrlPrefix ==
    <<"p", "l", "a", "c", "e", "h", "o", "l", "d", "e", "r", ":", "/", "/", "i", "m", "a", "g", "e", "_">>

\* '.jpg'
ImageUrlSuffix ==
    <<".", "j", "p", "g">>

\* words read per minute in estimated_read_time
WordsPerMinute == 200

(***************************************************************************)
(* Bounds.                                                                 *)
(***************************************************************************)
\* longest image list a request carries
MaxImages == 2

(***************************************************************************)
(* Python values.                                                          *)
(***************************************************************************)
EmptyDict == [k \in {} |-> 0]

Str(s) == [t |-> "str", s |-> s, n |-> 0, d |-> EmptyDict]

None == [t |-> "none", s |-> <<>>, n |-> 0, d |-> EmptyDict]

Num(n) == [t |-> "num", s |-> <<>>, n |-> n, d |-> EmptyDict]

Dict(d) == [t |-> "dict", s |-> <<>>, n |-> 0, d |-> d]

\* bool(v)
Truthy(v) ==
    CASE v.t = "str" -> v.s # <<>>
      [] v.t = "none" -> FALSE
      [] v.t = "num" -> v.n # 0
      [] v.t = "dict" -> DOMAIN v.d # {}

\* isinstance(v, dict)
IsDict(v) == v.t = "dict"

\* k in v, for a dict v
HasKey(v, k) == k \in DOMAIN v.d

\* v.get(k, default), for a dict v
Get(v, k, default) == IF k \in DOMAIN v.d THEN v.d[k] ELSE default

\* s.startswith(p)
StartsWith(s, p) == Len(s) >= Len(p) /\ SubSeq(s, 1, Len(p)) = p

\* sub in s, for two str
Contains(s, sub) ==
    \E i \in 1..(Len(s) + 1) :
        i + Len(sub) - 1 <= Len(s) /\ SubSeq(s, i, i + Len(sub) - 1) = sub

\* c.upper() of one character
Upper(c) ==
    IF \E i \in 1..Len(LowerLetters) : LowerLetters[i] = c
    THEN UpperLetters[CHOOSE i \in 1..Len(LowerLetters) : LowerLetters[i] = c]
    ELSE c

\* c.lower() of one character
Lower(c) ==
    IF \E i \in 1..Len(UpperLetters) : UpperLetters[i] = c
    THEN LowerLetters[CHOOSE i \in 1..Len(UpperLetters) : UpperLetters[i] = c]
    ELSE c

\* s.capitalize(): first character upper-cased, the rest lower-cased
Capitalize(s) ==
    [i \in 1..Len(s) |-> IF i = 1 THEN Upper(s[i]) ELSE Lower(s[i])]

\* the characters str.split() splits on
Whitespace == {" ", "\n", "\t", "\r"}

\* len(s.split()): the number of maximal runs of non-whitespace characters
WordCount(s) ==
    Cardinality({i \in 1..Len(s) :
        /\ s[i] \notin Whitespace
        /\ (i = 1 \/ s[i - 1] \in Whitespace)})

\* s.replace(a, b) for one-character a and b
Replace(s, a, b) == [i \in 1..Len(s) |-> IF s[i] = a THEN b ELSE s[i]]

RECURSIVE Digits(_)
\* str(n) for a natural number n
Digits(n) ==
    IF n < 10 THEN <<DigitChars[n + 1]>>
    ELSE Digits(n \div 10) \o <<DigitChars[(n % 10) + 1]>>

RECURSIVE ZeroPad(_, _)
\* the decimal digits of n left-padded with zeros to the given width
ZeroPad(n, width) ==
    IF width = 0 THEN <<>>
    ELSE ZeroPad(n \div 10, width - 1) \o <<DigitChars[(n % 10) + 1]>>

RECURSIVE SplitOn(_, _)
\* s.split(sep) for a one-character sep
SplitOn(s, sep) ==
    IF \E i \in 1..Len(s) : s[i] = sep
    THEN LET i == CHOOSE j \in 1..Len(s) :
                      s[j] = sep /\ \A k \in 1..(j - 1) : s[k] # sep
         IN  <<SubSeq(s, 1, i - 1)>> \o SplitOn(SubSeq(s, i + 1, Len(s)), sep)
    ELSE <<s>>

(***************************************************************************)
(* Requests: the JSON body of POST /memoir/create_entry.  A key that is    *)
(* absent has its has_ flag FALSE.                                         *)
(***************************************************************************)
\* one element of the images array: {image_data}
Images ==
    { [has_image_data |-> TRUE, image_data |-> ImageData1],
      [has_image_data |-> TRUE, image_data |-> ImageData2],
      [has_image_data |-> TRUE, image_data |-> <<>>],
      [has_image_data |-> FALSE, image_data |-> <<>>] }

ImageLists == UNION {[1..n -> Images] : n \in 0..MaxImages}

UserIds == {<<>>, User1}

Tones == {ToneAdventurous, ToneMixedCase}

\* request.json is None or {}
NoData ==
    [has_data |-> FALSE, has_user_id |-> FALSE, user_id |-> <<>>,
     has_images |-> FALSE, images |-> <<>>, has_tone |-> FALSE, tone |-> <<>>,
     has_user_context |-> FALSE, user_context |-> <<>>]

Requests ==
    {NoData}
    \cup [has_data : {TRUE}, has_user_id : {FALSE}, user_id : {<<>>},
          has_images : {TRUE}, images : {<<[has_image_data |-> TRUE, image_data |-> ImageData1]>>},
          has_tone : {FALSE}, tone : {<<>>},
          has_user_context : {FALSE}, user_context : {<<>>}]
    \cup [has_data : {TRUE}, has_user_id : {TRUE}, user_id : UserIds,
          has_images : {FALSE}, images : {<<>>},
          has_tone : {FALSE}, tone : {<<>>},
          has_user_context : {FALSE}, user_context : {<<>>}]
    \cup [has_data : {TRUE}, has_user_id : {TRUE}, user_id : UserIds,
          has_images : {TRUE}, images : ImageLists,
          has_tone : {FALSE}, tone : {<<>>},
          has_user_context : {TRUE}, user_context : {Context1}]
    \cup [has_data : {TRUE}, has_user_id : {TRUE}, user_id : UserIds,
          has_images : {TRUE}, images : ImageLists,
          has_tone : {TRUE}, tone : Tones,
          has_user_context : {FALSE}, user_context : {<<>>}]

(***************************************************************************)
(* Outcomes of the external services.  loop_error: run_async raises before *)
(* the tool runs; raised: the client call inside the tool raises; content: *)
(* response.choices[0].message.content, a str or None.                     *)
(***************************************************************************)
LoopError == [loop_error |-> TRUE, raised |-> FALSE, content |-> None]

ApiError == [loop_error |-> FALSE, raised |-> TRUE, content |-> None]

ApiContent(c) == [loop_error |-> FALSE, raised |-> FALSE, content |-> c]

CaptionOutcomes ==
    {LoopError, ApiError}
    \cup {ApiContent(c) : c \in {Str(Caption1), Str(Caption2), Str(<<>>), None}}

StoryOutcomes ==
    {LoopError, ApiError}
    \cup {ApiContent(c) : c \in {Str(Story1), Str(<<>>), None}}

TitleOutcomes ==
    {LoopError, ApiError}
    \cup {ApiContent(c) : c \in {Str(Title1), Str(<<>>), None}}

\* the mood vocabulary of the sentiment prompt plus "neutral"
MoodVocabulary ==
    {Joyful, Nostalgic, Adventurous, Peaceful, Melancholic, Excited,
     Grateful, Reflective, Neutral}

\* values a JSON document returned by the model can parse to
JsonValues ==
    { Dict([primary_mood |-> Str(Joyful), emotional_intensity |-> Num(7),
            overall_sentiment |-> Str(Positive)]),
      Dict([primary_mood |-> Str(Furious), emotional_intensity |-> Num(11),
            overall_sentiment |-> Str(Positive)]),
      Dict([primary_mood |-> None, emotional_intensity |-> Num(7),
            overall_sentiment |-> Str(Positive)]),
      Dict([emotional_intensity |-> Num(7)]),
      Dict([error |-> Str(ExcMsg)]),
      Dict(EmptyDict),
      Str(Joyful),
      Str(PrimaryMoodKey),
      Num(7),
      None }

\* the sentiment call: json_kind says what json.loads does with the content
\*   "value": parses to the value; "garbage": JSONDecodeError;
\*   "none": content is None, json.loads raises TypeError
SentimentOutcomes ==
    { [loop_error |-> TRUE, raised |-> FALSE, json_kind |-> "none", value |-> None],
      [loop_error |-> FALSE, raised |-> TRUE, json_kind |-> "none", value |-> None],
      [loop_error |-> FALSE, raised |-> FALSE, json_kind |-> "none", value |-> None],
      [loop_error |-> FALSE, raised |-> FALSE, json_kind |-> "garbage", value |-> None] }
    \cup {[loop_error |-> FALSE, raised |-> FALSE, json_kind |-> "value", value |-> v] :
             v \in JsonValues}

\* datetime.utcnow(): second and microsecond of the sampled instant
Timestamps == {[sec |-> 55, usec |-> 0], [sec |-> 55, usec |-> 123456]}

\* str(uuid.uuid4())[:8]
Uuids == {Uuid1, Uuid2}

(***************************************************************************)
(* The tools.                                                              *)
(***************************************************************************)
\* ImageCaptioningTool.caption_image
caption_image(o) ==
    IF o.raised THEN Str(ErrorPrefixSp \o ExcMsg) ELSE o.content

\* StoryGenerationTool.generate_story
generate_story(o) ==
    IF o.raised THEN Str(ErrorPrefixSp \o ExcMsg) ELSE o.content

\* StoryAnalysisTool.analyze_story_sentiment
analyze_story_sentiment(o) ==
    IF o.raised \/ o.json_kind = "none"
    THEN Dict([error |-> Str(AnalysisFailedPrefix \o ExcMsg)])
    ELSE IF o.json_kind = "garbage"
    THEN Dict([error |-> Str(ParseFailedMsg),
               primary_mood |-> Str(Neutral),
               emotional_intensity |-> Num(5),
               overall_sentiment |-> Str(Neutral),
               mood_color |-> Str(MoodColorGrey)])
    ELSE o.value

\* the test `sentiment_data and "primary_mood" in sentiment_data` and the
\* f-string that follows it raise TypeError for a number, and for a str
\* that contains the key (a str is indexed by a str)
MoodContextRaises(sentiment_data) ==
    /\ Truthy(sentiment_data)
    /\ \/ sentiment_data.t = "num"
       \/ sentiment_data.t = "str" /\ Contains(sentiment_data.s, PrimaryMoodKey)

\* StoryAnalysisTool.generate_story_title
generate_story_title(sentiment_data, o) ==
    IF MoodContextRaises(sentiment_data) \/ o.raised
    THEN Dict([error |-> Str(TitleFailedPrefix \o ExcMsg)])
    ELSE o.content

(***************************************************************************)
(* State.                                                                  *)
(***************************************************************************)
VARIABLES
    pc,                 \* phase of the create_memoir_entry handler
    req,                \* request.json of the request being handled
    i,                  \* 1-based position of the image the loop is at
    captions,           \* captions collected so far
    image_metadata,     \* per-image records collected so far
    story_content,      \* result of the story tool
    sentiment_analysis, \* sentiment record in use
    title,              \* title in use
    put_done,           \* save_journal_entry has written the entry
    entry_id,           \* entry_id built by save_journal_entry
    response,           \* what the handler returned
    calls,              \* calls made to the collaborators, in order
    journal_table,      \* MemoirAI-JournalEntries: (user_id, entry_id) -> item
    users_table,        \* MemoirAI-Users: user_id -> item
    inflight,           \* bag of the repository requests that are under way
    returned            \* bag of the repository requests that were answered

vars ==
    <<pc, req, i, captions, image_metadata, story_content, sentiment_analysis,
      title, put_done, entry_id, response, calls, journal_table, users_table,
      inflight, returned>>

\* locals of the handler
workflow_vars ==
    <<captions, image_metadata, story_content, sentiment_analysis, title>>

\* tables of the store
store_vars == <<journal_table, users_table>>

\* the repository requests served next to the workflow
request_vars == <<inflight, returned>>

\* state of the create_memoir_entry handler
handler_vars ==
    <<pc, req, i, captions, image_metadata, story_content, sentiment_analysis,
      title, put_done, entry_id, response, calls>>

NoResponse == [status |-> 0]

\* jsonify({'error': ...}), status: the message is kept as its fixed part,
\* the 1-based image position it names (0 when none) and the value it embeds
ErrorResponse(status, error, pos, detail) ==
    [status |-> status, error |-> error, pos |-> pos, detail |-> detail]

\* one call of a collaborator: raised says that no result came back
Call(tool, pos, arg, raised, result) ==
    [tool |-> tool, pos |-> pos, arg |-> arg, raised |-> raised, result |-> result]

\* data['user_id']
user_id == req.user_id

\* data.get('user_context', '')
user_context == IF req.has_user_context THEN req.user_context ELSE <<>>

\* data.get('tone', 'heartwarming')
tone == IF req.has_tone THEN req.tone ELSE ToneDefault

Init ==
    /\ pc = "Idle"
    /\ req = NoData
    /\ i = 0
    /\ captions = <<>>
    /\ image_metadata = <<>>
    /\ story_content = None
    /\ sentiment_analysis = None
    /\ title = None
    /\ put_done = FALSE
    /\ entry_id = <<>>
    /\ response = NoResponse
    /\ calls = <<>>
    /\ journal_table = <<>>
    /\ users_table = <<>>
    /\ inflight = EmptyBag
    /\ returned = EmptyBag

(***************************************************************************)
(* create_memoir_entry, one action per step between two external calls.    *)
(***************************************************************************)
\* the request arrives and its required fields are validated
Submit(r) ==
    /\ pc = "Idle"
    /\ req' = r
    /\ IF ~r.has_data \/ ~r.has_user_id
       THEN /\ response' = ErrorResponse(400, "user_id is required", 0, None)
            /\ pc' = "Rejected"
            /\ i' = i
       ELSE IF ~r.has_images \/ r.images = <<>>
       THEN /\ response' = ErrorResponse(400, "At least one image is required", 0, None)
            /\ pc' = "Rejected"
            /\ i' = i
       ELSE /\ response' = response
            /\ pc' = "Captioning"
            /\ i' = 1
    /\ UNCHANGED <<workflow_vars, put_done, entry_id, calls, store_vars>>
    /\ UNCHANGED request_vars

\* mutant of CaptionFailed: the error sentinel is not looked for
CaptionFailed_NoSentinel(caption) == ~Truthy(caption)

\* `not caption or caption.startswith('Error:')`
CaptionFailed(caption) ==
    ~Truthy(caption) \/ StartsWith(caption.s, ErrorPrefix)

\* image records numbered from 0, as enumerate() counts
ImageMetadata_ZeroBased(k, caption) ==
    [image_id |-> ImageIdPrefix \o Digits(k - 1),
     caption |-> caption,
     upload_order |-> k - 1,
     image_url |-> ImageUrlPrefix \o Digits(k - 1) \o ImageUrlSuffix]

\* the record appended to image_metadata for the image at position k
ImageMetadata(k, caption) ==
    [image_id |-> ImageIdPrefix \o Digits(k),
     caption |-> caption,
     upload_order |-> k,
     image_url |-> ImageUrlPrefix \o Digits(k) \o ImageUrlSuffix]

\* mutant of AppendCaption: the caption is put in front
AppendCaption_Prepend(list, caption) == <<caption>> \o list

\* captions.append(caption)
AppendCaption(list, caption) == Append(list, caption)

\* one iteration of the caption loop, and the check after the last one
CaptionImage(o) ==
    /\ pc = "Captioning"
    /\ i <= Len(req.images)
    /\ LET img == req.images[i]
       IN  IF ~img.has_image_data \/ img.image_data = <<>>
           THEN /\ response' = ErrorResponse(400, "Image missing image_data", i, None)
                /\ pc' = "Rejected"
                /\ UNCHANGED <<i, captions, image_metadata, calls>>
           ELSE IF o.loop_error
           THEN /\ calls' = Append(calls, Call("Captioner", i, img.image_data, TRUE, None))
                /\ response' = ErrorResponse(500, "Error processing image", i, Str(ExcMsg))
                /\ pc' = "Failed"
                /\ UNCHANGED <<i, captions, image_metadata>>
           ELSE LET caption == caption_image(o)
                IN  /\ calls' = Append(calls,
                                    Call("Captioner", i, img.image_data, FALSE, caption))
                    /\ IF CaptionFailed(caption)
                       THEN /\ response' = ErrorResponse(500, "Failed to caption image",
                                                         i, caption)
                            /\ pc' = "Failed"
                            /\ UNCHANGED <<i, captions, image_metadata>>
                       ELSE /\ captions' = AppendCaption(captions, caption)
                            /\ image_metadata' =
                                   Append(image_metadata, ImageMetadata(i, caption))
                            /\ i' = i + 1
                            /\ IF i < Len(req.images)
                               THEN /\ pc' = "Captioning"
                                    /\ response' = response
                               ELSE IF captions' = <<>>
                               THEN /\ pc' = "Failed"
                                    /\ response' = ErrorResponse(500,
                                           "Failed to generate any image captions", 0, None)
                               ELSE /\ pc' = "Narrating"
                                    /\ response' = response
    /\ UNCHANGED <<req, story_content, sentiment_analysis, title, put_done,
                   entry_id, store_vars>>
    /\ UNCHANGED request_vars

\* mutant of StoryFailed: an empty story is let through
StoryFailed_NoEmpty(story) == StartsWith(story.s, ErrorPrefix)

\* `not story_content or story_content.startswith('Error:')`
StoryFailed(story) ==
    ~Truthy(story) \/ StartsWith(story.s, ErrorPrefix)

\* step 2: the story is generated from the captions
GenerateStory(o) ==
    /\ pc = "Narrating"
    /\ LET arg == [captions |-> captions, user_context |-> user_context, tone |-> tone]
       IN  IF o.loop_error
           THEN /\ calls' = Append(calls, Call("NarrativeGenerator", 0, arg, TRUE, None))
                /\ response' = ErrorResponse(500, "Error generating story", 0, Str(ExcMsg))
                /\ pc' = "Failed"
                /\ story_content' = story_content
           ELSE LET story == generate_story(o)
                IN  /\ calls' = Append(calls,
                                    Call("NarrativeGenerator", 0, arg, FALSE, story))
                    /\ story_content' = story
                    /\ IF StoryFailed(story)
                       THEN /\ response' = ErrorResponse(500, "Failed to generate story",
                                                         0, story)
                            /\ pc' = "Failed"
                       ELSE /\ response' = response
                            /\ pc' = "Analyzing"
    /\ UNCHANGED <<req, i, captions, image_metadata, sentiment_analysis, title,
                   put_done, entry_id, store_vars>>
    /\ UNCHANGED request_vars

\* the record substituted when the sentiment analysis fails
DefaultSentiment ==
    Dict([primary_mood |-> Str(Neutral),
          emotional_intensity |-> Num(5),
          overall_sentiment |-> Str(Neutral)])

\* `isinstance(sentiment_analysis, dict) and 'error' in sentiment_analysis`
SentimentFailed(result) == IsDict(result) /\ HasKey(result, "error")

\* mutant of ResolveSentiment: the error marker is not looked for
ResolveSentiment_Keep(result) == result

\* the sentiment record the handler goes on with
ResolveSentiment(result) ==
    IF SentimentFailed(result) THEN DefaultSentiment ELSE result

\* step 3: the sentiment of the story is analysed
AnalyzeSentiment(o) ==
    /\ pc = "Analyzing"
    /\ IF o.loop_error
       THEN /\ calls' = Append(calls, Call("SentimentAnalyzer", 0, story_content, TRUE, None))
            /\ sentiment_analysis' = DefaultSentiment
       ELSE LET result == analyze_story_sentiment(o)
            IN  /\ calls' = Append(calls,
                                Call("SentimentAnalyzer", 0, story_content, FALSE, result))
                /\ sentiment_analysis' = ResolveSentiment(result)
    /\ pc' = "Titling"
    /\ UNCHANGED <<req, i, captions, image_metadata, story_content, title,
                   put_done, entry_id, response, store_vars>>
    /\ UNCHANGED request_vars

\* mutant of FallbackTitle: the tone is not capitalized
FallbackTitle_NoCapitalize(t) == Str(TitlePrefix \o t \o TitleSuffix)

\* f"My {tone.capitalize()} Memory"
FallbackTitle(t) == Str(TitlePrefix \o Capitalize(t) \o TitleSuffix)

\* `not title or (isinstance(title, dict) and 'error' in title)`
TitleFailed(result) ==
    ~Truthy(result) \/ (IsDict(result) /\ HasKey(result, "error"))

\* the title the handler goes on with
ResolveTitle(result, t) ==
    IF TitleFailed(result) THEN FallbackTitle(t) ELSE result

\* step 4: the title is generated
GenerateTitle(o) ==
    /\ pc = "Titling"
    /\ LET arg == [story_content |-> story_content, sentiment_data |-> sentiment_analysis]
       IN  IF o.loop_error
           THEN /\ calls' = Append(calls, Call("TitleGenerator", 0, arg, TRUE, None))
                /\ title' = FallbackTitle(tone)
           ELSE LET result == generate_story_title(sentiment_analysis, o)
                IN  /\ calls' = Append(calls, Call("TitleGenerator", 0, arg, FALSE, result))
                    /\ title' = ResolveTitle(result, tone)
    /\ pc' = "Persisting"
    /\ UNCHANGED <<req, i, captions, image_metadata, story_content,
                   sentiment_analysis, put_done, entry_id, response, store_vars>>
    /\ UNCHANGED request_vars

(***************************************************************************)
(* DatabaseService.save_journal_entry.                                     *)
(***************************************************************************)
\* datetime.isoformat(): the microseconds are printed only when non-zero
IsoFormat(ts) ==
    DatePrefix \o ZeroPad(ts.sec, 2)
        \o (IF ts.usec = 0 THEN <<>> ELSE <<".">> \o ZeroPad(ts.usec, 6))

\* datetime.utcnow().isoformat() + 'Z'
Timestamp(ts) == IsoFormat(ts) \o <<"Z">>

\* f"ENTRY_{timestamp_clean}_{entry_uuid}"
EntryId(ts, uuid) ==
    EntryPrefix \o Replace(Replace(Timestamp(ts), ":", "-"), ".", "-")
        \o <<"_">> \o uuid

Max(a, b) == IF a >= b THEN a ELSE b

\* a read time without the minimum of one minute
EstimatedReadTime_NoMinimum(word_count) ==
    Digits(word_count \div WordsPerMinute) \o MinSuffix

\* f"{max(1, word_count // 200)} min"
EstimatedReadTime(word_count) ==
    Digits(Max(1, word_count \div WordsPerMinute)) \o MinSuffix

\* `sentiment_analysis.get(...) if sentiment_analysis else 'neutral'` raises
\* AttributeError for a truthy value that is not a dict
PrimaryMoodRaises(sentiment) == Truthy(sentiment) /\ ~IsDict(sentiment)

\* sentiment_analysis.get('primary_mood', 'neutral') if sentiment_analysis else 'neutral'
PrimaryMood(sentiment) ==
    IF Truthy(sentiment)
    THEN Get(sentiment, "primary_mood", Str(Neutral))
    ELSE Str(Neutral)

\* entry_item
EntryItem(uid, id, ts, t, story, context, tn, images, sentiment) ==
    [user_id |-> uid,
     entry_id |-> id,
     created_at |-> Timestamp(ts),
     updated_at |-> Timestamp(ts),
     title |-> t,
     story_content |-> story,
     user_context |-> context,
     tone |-> tn,
     images |-> images,
     sentiment_analysis |-> IF Truthy(sentiment) THEN sentiment ELSE Dict(EmptyDict),
     primary_mood |-> PrimaryMood(sentiment),
     word_count |-> WordCount(story.s),
     estimated_read_time |-> EstimatedReadTime(WordCount(story.s)),
     is_favorite |-> FALSE,
     privacy_level |-> "private",
     tags |-> <<>>]

\* journal_table.put_item(Item=item): the item replaces any item of its key
PutItem(table, item) ==
    LET key == <<item.user_id, item.entry_id>>
    IN  [k \in DOMAIN table \cup {key} |-> IF k = key THEN item ELSE table[k]]

\* a counter update that overwrites the counter with the increment
AddTotalEntries_Set(table, uid, inc) ==
    [u \in DOMAIN table \cup {uid} |->
        IF u # uid THEN table[u]
        ELSE IF uid \in DOMAIN table
        THEN [table[uid] EXCEPT !.total_entries = inc]
        ELSE [user_id |-> uid, total_entries |-> inc]]

\* users_table.update_item(... 'ADD total_entries :inc'): ADD creates the
\* item, and the attribute, when they do not exist
AddTotalEntries(table, uid, inc) ==
    [u \in DOMAIN table \cup {uid} |->
        IF u # uid THEN table[u]
        ELSE IF uid \in DOMAIN table
        THEN [table[uid] EXCEPT !.total_entries = @ + inc]
        ELSE [user_id |-> uid, total_entries |-> inc]]

\* step 5, first half: the item is built and written.  store_ok = FALSE is
\* a ClientError of put_item; DynamoDB answers a key attribute that is the
\* empty string with one (ValidationException)
SavePut(ts, uuid, store_ok) ==
    /\ pc = "Persisting"
    /\ ~put_done
    /\ user_id = <<>> => ~store_ok
    /\ IF PrimaryMoodRaises(sentiment_analysis)
       THEN /\ response' = ErrorResponse(500, "Error saving to database", 0,
                                         Str(AttributeErrorMsg))
            /\ pc' = "Failed"
            /\ UNCHANGED <<put_done, entry_id, calls, journal_table>>
       ELSE LET id == EntryId(ts, uuid)
                item == EntryItem(user_id, id, ts, title, story_content,
                                  user_context, tone, image_metadata,
                                  sentiment_analysis)
            IN  /\ calls' = Append(calls, Call("put_item", 0, id, ~store_ok, None))
                /\ IF store_ok
                   THEN /\ journal_table' = PutItem(journal_table, item)
                        /\ put_done' = TRUE
                        /\ entry_id' = id
                        /\ UNCHANGED <<pc, response>>
                   ELSE /\ response' = ErrorResponse(500, "Error saving to database", 0,
                                                     Str(ExcMsg))
                        /\ pc' = "Failed"
                        /\ UNCHANGED <<put_done, entry_id, journal_table>>
    /\ UNCHANGED <<req, i, workflow_vars, users_table>>
    /\ UNCHANGED request_vars

\* entry_id.split('_')[1] if '_' in entry_id else 'unknown'
ResponseCreatedAt(id) ==
    IF Contains(id, <<"_">>) THEN SplitOn(id, "_")[2] ELSE Unknown

\* the body of the 200 response
SuccessResponse(id, t, story, sentiment, images, tn) ==
    [status |-> 200,
     success |-> TRUE,
     entry_id |-> id,
     title |-> t,
     story_content |-> story,
     sentiment_analysis |-> sentiment,
     images |-> images,
     metadata |-> [word_count |-> WordCount(story.s),
                   tone |-> tn,
                   created_at |-> ResponseCreatedAt(id)]]

\* step 5, second half: the owner's counter is incremented, save returns and
\* the response is assembled.  store_ok = FALSE is a ClientError of
\* update_item, which save_journal_entry re-raises
SaveCount(store_ok) ==
    /\ pc = "Persisting"
    /\ put_done
    /\ calls' = Append(calls, Call("update_item", 0, user_id, ~store_ok, None))
    /\ IF store_ok
       THEN /\ users_table' = AddTotalEntries(users_table, user_id, 1)
            /\ response' = SuccessResponse(entry_id, title, story_content,
                                           sentiment_analysis, image_metadata, tone)
            /\ pc' = "Done"
       ELSE /\ response' = ErrorResponse(500, "Error saving to database", 0, Str(ExcMsg))
            /\ pc' = "Failed"
            /\ users_table' = users_table
    /\ UNCHANGED <<req, i, workflow_vars, put_done, entry_id, journal_table>>
    /\ UNCHANGED request_vars

(***************************************************************************)
(* Properties of create_memoir_entry.                                      *)
(***************************************************************************)
\* the handler has returned
Terminated == pc \in {"Done", "Failed", "Rejected"}

\* positions in calls of the calls of one collaborator
CallsTo(tool) == {k \in 1..Len(calls) : calls[k].tool = tool}

\* positions in calls of the store writes that were applied
AppliedPuts == {k \in CallsTo("put_item") : ~calls[k].raised}

\* a caption that is no caption: nothing came back, or None, or the empty
\* string, or a string led by the error sentinel
BadText(call) ==
    \/ call.raised
    \/ call.result.t = "none"
    \/ call.result.t = "str" /\ call.result.s = <<>>
    \/ call.result.t = "str" /\ Len(call.result.s) >= 6
           /\ SubSeq(call.result.s, 1, 6) = <<"E", "r", "r", "o", "r", ":">>

\* C1: a request that succeeds has persisted exactly one entry, a request
\* that fails (caption, narrative or persist failure) has persisted none,
\* and the entry is written only after the narrative, the sentiment and the
\* title were produced.
C1_OneEntryOrNone ==
    /\ pc = "Done" => Cardinality(AppliedPuts) = 1 /\ Cardinality(DOMAIN journal_table) = 1
    /\ pc = "Failed" => AppliedPuts = {} /\ DOMAIN journal_table = {}
    /\ \A k \in CallsTo("put_item") :
           /\ \E n \in CallsTo("NarrativeGenerator") : n < k
           /\ \E n \in CallsTo("SentimentAnalyzer") : n < k
           /\ \E n \in CallsTo("TitleGenerator") : n < k

\* C2: when the Captioner fails on image k, no later image is captioned, no
\* other collaborator is called, nothing is persisted, and the 500 response
\* names position k.
C2_CaptionFailureAborts ==
    \A k \in CallsTo("Captioner") :
        BadText(calls[k]) =>
            /\ k = Len(calls)
            /\ calls[k].pos = k
            /\ \A j \in 1..k : calls[j].tool = "Captioner"
            /\ pc = "Failed"
            /\ response.status = 500
            /\ response.pos = k
            /\ Len(captions) = k - 1
            /\ DOMAIN journal_table = {}
            /\ DOMAIN users_table = {}

\* C2 witness: the first of two images failed and the request was aborted
C2_Witness ==
    /\ pc = "Failed"
    /\ Len(req.images) = 2
    /\ Len(calls) = 1
    /\ calls[1].tool = "Captioner"
    /\ BadText(calls[1])

\* C3: when the NarrativeGenerator fails the request fails with 500: no
\* narrative is substituted, the sentiment and title tools are not called,
\* and nothing is persisted.
C3_NarrativeFailureAborts ==
    \A k \in CallsTo("NarrativeGenerator") :
        BadText(calls[k]) =>
            /\ k = Len(calls)
            /\ pc = "Failed"
            /\ response.status = 500
            /\ story_content = (IF calls[k].raised THEN None ELSE calls[k].result)
            /\ CallsTo("SentimentAnalyzer") = {}
            /\ CallsTo("TitleGenerator") = {}
            /\ DOMAIN journal_table = {}
            /\ DOMAIN users_table = {}

\* C3 witness: the captions were made and the narrative call failed
C3_Witness ==
    /\ pc = "Failed"
    /\ Len(captions) = 2
    /\ Len(calls) = 3
    /\ calls[3].tool = "NarrativeGenerator"
    /\ BadText(calls[3])

\* the entry the request has written
WrittenEntry == journal_table[<<user_id, entry_id>>]

\* the request failed in save_journal_entry
PersistFailure ==
    pc = "Failed" /\ response.status = 500 /\ response.error = "Error saving to database"

\* the sentiment call failed: nothing came back, or the tool returned its
\* error marker
SentimentCallFailed ==
    \E k \in CallsTo("SentimentAnalyzer") :
        calls[k].raised \/ "error" \in DOMAIN calls[k].result.d

\* the record {primary_mood: neutral, emotional_intensity: 5, overall_sentiment: neutral}
C4_DefaultRecord ==
    [t |-> "dict", s |-> <<>>, n |-> 0,
     d |-> [primary_mood |-> Str(<<"n", "e", "u", "t", "r", "a", "l">>),
            emotional_intensity |-> Num(5),
            overall_sentiment |-> Str(<<"n", "e", "u", "t", "r", "a", "l">>)]]

\* C4: when the SentimentAnalyzer fails or returns unparseable output the
\* request goes on with the default record (only a persist failure can still
\* fail it); the entry written has primary_mood "neutral" and the default
\* record, and the response returns that record.
C4_SentimentFallback ==
    SentimentCallFailed =>
        /\ sentiment_analysis = C4_DefaultRecord
        /\ pc \in {"Titling", "Persisting", "Done", "Failed"}
        /\ pc = "Failed" => PersistFailure /\ calls[Len(calls)].raised
                              /\ calls[Len(calls)].tool \in {"put_item", "update_item"}
        /\ put_done =>
               /\ WrittenEntry.sentiment_analysis = C4_DefaultRecord
               /\ WrittenEntry.primary_mood = Str(<<"n", "e", "u", "t", "r", "a", "l">>)
        /\ pc = "Done" =>
               /\ response.status = 200
               /\ response.sentiment_analysis = C4_DefaultRecord

\* C4 witness: the sentiment call failed and the request succeeded
C4_Witness == pc = "Done" /\ SentimentCallFailed /\ DOMAIN journal_table # {}

\* the title call failed: nothing came back, the tool returned its error
\* marker, or the title is None or empty
TitleCallFailed ==
    \E k \in CallsTo("TitleGenerator") :
        \/ calls[k].raised
        \/ calls[k].result.t = "none"
        \/ calls[k].result.t = "str" /\ calls[k].result.s = <<>>
        \/ calls[k].result.t = "dict" /\ "error" \in DOMAIN calls[k].result.d

\* 'My Heartwarming Memory'
C5_MyHeartwarmingMemory ==
    <<"M", "y", " ", "H", "e", "a", "r", "t", "w", "a", "r", "m", "i", "n", "g", " ", "M", "e", "m", "o", "r", "y">>

\* 'My Adventurous Memory'
C5_MyAdventurousMemory ==
    <<"M", "y", " ", "A", "d", "v", "e", "n", "t", "u", "r", "o", "u", "s", " ", "M", "e", "m", "o", "r", "y">>

\* 'My Nostalgic Memory'
C5_MyNostalgicMemory ==
    <<"M", "y", " ", "N", "o", "s", "t", "a", "l", "g", "i", "c", " ", "M", "e", "m", "o", "r", "y">>

\* "My " + Capitalize(tone) + " Memory" for the tone of the request
C5_ExpectedTitle ==
    IF ~req.has_tone THEN Str(C5_MyHeartwarmingMemory)
    ELSE IF req.tone = <<"a", "d", "v", "e", "n", "t", "u", "r", "o", "u", "s">>
    THEN Str(C5_MyAdventurousMemory)
    ELSE Str(C5_MyNostalgicMemory)

\* C5: when the TitleGenerator fails the request goes on to the persist
\* phase (only a persist failure can still fail it) and the title used,
\* written and returned is "My " + Capitalize(tone) + " Memory", the tone
\* being "heartwarming" when the request has none.
C5_TitleFallback ==
    TitleCallFailed =>
        /\ title = C5_ExpectedTitle
        /\ pc \in {"Persisting", "Done", "Failed"}
        /\ pc = "Failed" => PersistFailure
        /\ put_done => WrittenEntry.title = C5_ExpectedTitle
        /\ pc = "Done" => response.status = 200 /\ response.title = C5_ExpectedTitle

\* C5 witness: the title call failed for a request without tone, and the
\* request succeeded
C5_Witness == pc = "Done" /\ TitleCallFailed /\ ~req.has_tone

\* C5 witness for a tone in mixed case
C5_WitnessMixedCase ==
    pc = "Done" /\ TitleCallFailed /\ req.has_tone /\ req.tone = ToneMixedCase

\* the phase changes of the state machine of the workflow
C6_Transitions ==
    { <<"Idle", "Captioning">>, <<"Captioning", "Narrating">>,
      <<"Narrating", "Analyzing">>, <<"Analyzing", "Titling">>,
      <<"Titling", "Persisting">>, <<"Persisting", "Done">>,
      <<"Captioning", "Failed">>, <<"Narrating", "Failed">>,
      <<"Persisting", "Failed">>,
      <<"Idle", "Rejected">>, <<"Captioning", "Rejected">> }

\* C6: the phases are passed in the order Captioning, Narrating, Analyzing,
\* Titling, Persisting, Done, none of the last four entered twice; Failed is
\* entered only from Captioning, Narrating or Persisting; and once a
\* narrative exists the request fails only when a store call fails, whatever
\* the SentimentAnalyzer and the TitleGenerator returned.  (Stated for the
\* requests that carry a non-empty user_id.)
C6_PhaseOrder ==
    [][ (req'.has_user_id /\ req'.user_id # <<>>) =>
        /\ pc' # pc => <<pc, pc'>> \in C6_Transitions
        /\ (pc = "Persisting" /\ pc' = "Failed") =>
               /\ calls' # calls
               /\ calls'[Len(calls')].tool \in {"put_item", "update_item"}
               /\ calls'[Len(calls')].raised
        /\ \A tool \in {"NarrativeGenerator", "SentimentAnalyzer", "TitleGenerator"} :
               Cardinality({k \in 1..Len(calls') : calls'[k].tool = tool}) <= 1 ]_vars

\* C7: the Captioner is called one image at a time in submission order, at
\* most once per image; when the narrative phase is reached it was called
\* once for each image, and the caption list handed to the
\* NarrativeGenerator holds at position j the caption made for image j.
C7_CaptionOrder ==
    /\ \A k \in CallsTo("Captioner") :
           /\ calls[k].pos = k
           /\ k <= Len(req.images)
           /\ calls[k].arg = req.images[k].image_data
    /\ pc \in {"Narrating", "Analyzing", "Titling", "Persisting", "Done"} =>
           /\ CallsTo("Captioner") = 1..Len(req.images)
           /\ Len(captions) = Len(req.images)
           /\ \A j \in 1..Len(req.images) : captions[j] = calls[j].result
    /\ \A k \in CallsTo("NarrativeGenerator") :
           /\ k = Len(req.images) + 1
           /\ Len(calls[k].arg.captions) = Len(req.images)
           /\ \A j \in 1..Len(req.images) :
                  calls[k].arg.captions[j] = calls[j].result

\* C7 witness: two different images got two different captions and the
\* NarrativeGenerator was called
C7_Witness ==
    /\ Len(req.images) = 2
    /\ req.images[1] # req.images[2]
    /\ Len(calls) >= 3
    /\ calls[3].tool = "NarrativeGenerator"
    /\ calls[1].result # calls[2].result

\* the request lacks a required field: user_id missing or empty, images
\* missing or empty, or an image without non-empty image data
InvalidRequest ==
    \/ ~req.has_data
    \/ ~req.has_user_id
    \/ req.user_id = <<>>
    \/ ~req.has_images
    \/ req.images = <<>>
    \/ \E k \in 1..Len(req.images) :
           ~req.images[k].has_image_data \/ req.images[k].image_data = <<>>

\* C8: a request with a missing or empty user_id, a missing or empty image
\* list, or an image without image data is answered with 400 and persists
\* nothing.
C8_InvalidRequestRejected ==
    (pc # "Idle" /\ InvalidRequest) =>
        /\ DOMAIN journal_table = {}
        /\ Terminated => response.status = 400

\* C9: a request answered with a validation error has called no
\* collaborator and no store operation.  (Stated for the requests whose
\* user_id is not the empty string.)
C9_NoCallBeforeRejection ==
    (Terminated /\ response.status = 400 /\ ~(req.has_user_id /\ req.user_id = <<>>)) =>
        calls = <<>>

\* C10: every persisted entry has a primary_mood that is a string of the
\* nine-value vocabulary, never null.
C10_PrimaryMoodInVocabulary ==
    \A key \in DOMAIN journal_table :
        /\ journal_table[key].primary_mood.t = "str"
        /\ journal_table[key].primary_mood.s \in MoodVocabulary

\* a well-formed SentimentRecord: a dict whose primary_mood is a word of the
\* vocabulary and whose emotional_intensity, when present, is in 1..10
WellFormedSentiment(v) ==
    /\ v.t = "dict"
    /\ "primary_mood" \in DOMAIN v.d
    /\ v.d["primary_mood"].t = "str"
    /\ v.d["primary_mood"].s \in MoodVocabulary
    /\ "emotional_intensity" \in DOMAIN v.d =>
           /\ v.d["emotional_intensity"].t = "num"
           /\ v.d["emotional_intensity"].n \in 1..10

\* C11: a value returned by the SentimentAnalyzer that is not a well-formed
\* SentimentRecord is replaced by the default record, and the request can
\* then fail only in a store call.  (Stated for the requests that carry a
\* non-empty user_id.)
C11_MalformedSentimentReplaced ==
    \A k \in CallsTo("SentimentAnalyzer") :
        (~calls[k].raised /\ ~WellFormedSentiment(calls[k].result) /\ req.user_id # <<>>) =>
            /\ sentiment_analysis = C4_DefaultRecord
            /\ pc = "Failed" =>
                   /\ calls[Len(calls)].tool \in {"put_item", "update_item"}
                   /\ calls[Len(calls)].raised

Next ==
    \/ \E r \in Requests : Submit(r)
    \/ \E o \in CaptionOutcomes : CaptionImage(o)
    \/ \E o \in StoryOutcomes : GenerateStory(o)
    \/ \E o \in SentimentOutcomes : AnalyzeSentiment(o)
    \/ \E o \in TitleOutcomes : GenerateTitle(o)
    \/ \E ts \in Timestamps, uuid \in Uuids, store_ok \in BOOLEAN :
           SavePut(ts, uuid, store_ok)
    \/ \E store_ok \in BOOLEAN : SaveCount(store_ok)

Spec == Init /\ [][Next]_vars

(***************************************************************************)
(* The entry endpoints of http_server.py over DatabaseService: any number  *)
(* of requests run concurrently, each taking one step per store call.      *)
(* store_ok = FALSE is a ClientError of the store call that is no          *)
(* ConditionalCheckFailedException; the call is then not applied.          *)
(***************************************************************************)
\* requests started in one behaviour
MaxRequests == 3

\* the saves of the repository model: an owner, the clock and the uuid4 of
\* the save, and the sentiment record of the entry. Two owners, two entries
\* of one owner in the same second, two entries in the same microsecond,
\* and the same entry_id under two owners
SaveInputs ==
    LET joyful == Dict([primary_mood |-> Str(Joyful), emotional_intensity |-> Num(7),
                        overall_sentiment |-> Str(Positive)])
    IN  { [user_id |-> User1, ts |-> [sec |-> 55, usec |-> 0], uuid |-> Uuid1,
           sentiment |-> DefaultSentiment],
          [user_id |-> User1, ts |-> [sec |-> 55, usec |-> 123456], uuid |-> Uuid1,
           sentiment |-> joyful],
          [user_id |-> User1, ts |-> [sec |-> 55, usec |-> 0], uuid |-> Uuid2,
           sentiment |-> joyful],
          [user_id |-> User2, ts |-> [sec |-> 55, usec |-> 0], uuid |-> Uuid1,
           sentiment |-> DefaultSentiment] }

\* what a read that finds no entry yields
NoItem == [absent |-> TRUE]

\* one store call of a request and whether it went through
StoreCall(name, ok) == [call |-> name, ok |-> ok]

\* a request: op is the endpoint, step the store call it is about to make,
\* log the store calls made, result what the DatabaseService method returned
\* ("raised" when it raised), status the HTTP status, item the entry read
Request(op, uid, id, fav, step, log, result, status, item) ==
    [op |-> op, user_id |-> uid, entry_id |-> id, is_favorite |-> fav,
     step |-> step, log |-> log, result |-> result, status |-> status,
     item |-> item]

\* store calls that may fail in one behaviour
MaxStoreFailures == 1

RECURSIVE FailedCalls(_)
\* the failed store calls in the logs of a bag of requests
FailedCalls(bag) ==
    IF bag = EmptyBag THEN 0
    ELSE LET r == CHOOSE x \in BagToSet(bag) : TRUE
         IN  Cardinality({k \in 1..Len(r.log) : ~r.log[k].ok})
                 + FailedCalls(bag (-) SetToBag({r}))

\* a store call of the next step may go through, and may fail while the
\* failures are not used up
StoreOutcomes ==
    IF FailedCalls(inflight) + FailedCalls(returned) < MaxStoreFailures
    THEN {TRUE, FALSE} ELSE {TRUE}

\* keys that a request can name: those of the entries stored, those named
\* by earlier requests, and one more
TargetKeys ==
    DOMAIN journal_table
    \cup {<<r.user_id, r.entry_id>> : r \in BagToSet(inflight) \cup BagToSet(returned)}
    \cup {<<User1, EntryId([sec |-> 55, usec |-> 0], Uuid1)>>}

\* requests started so far
Started == BagCardinality(inflight) + BagCardinality(returned)

\* the request r is answered
Answer(r) == returned' = returned (+) SetToBag({r})

\* the request o under way goes on as r
Proceed(o, r) == inflight' = (inflight (-) SetToBag({o})) (+) SetToBag({r})

\* the request o under way is answered as r
Finish(o, r) ==
    /\ inflight' = inflight (-) SetToBag({o})
    /\ returned' = returned (+) SetToBag({r})

\* journal_table.get_item(Key=...).get('Item')
GetItem(table, uid, id) ==
    IF <<uid, id>> \in DOMAIN table THEN table[<<uid, id>>] ELSE NoItem

\* DatabaseService.get_entry_by_id: the item, or None when it is absent or
\* when get_item raises
get_entry_by_id(table, uid, id, store_ok) ==
    IF store_ok THEN GetItem(table, uid, id) ELSE NoItem

\* journal_table.delete_item(Key=...)
DeleteItem(table, uid, id) ==
    [k \in DOMAIN table \ {<<uid, id>>} |-> table[k]]

\* a decrement without its floor condition
DecrementAllowed_Always(table, uid) == TRUE

\* ConditionExpression='total_entries > :zero' of the decrement
DecrementAllowed(table, uid) ==
    uid \in DOMAIN table /\ table[uid].total_entries > 0

\* a favorite update that also rewrites created_at
SetFavorite_TouchCreatedAt(table, uid, id, fav, ts) ==
    [table EXCEPT ![<<uid, id>>] =
        [@ EXCEPT !.is_favorite = fav, !.updated_at = Timestamp(ts),
                  !.created_at = Timestamp(ts)]]

\* journal_table.update_item(... 'SET is_favorite = :fav, updated_at = :timestamp')
SetFavorite(table, uid, id, fav, ts) ==
    [table EXCEPT ![<<uid, id>>] =
        [@ EXCEPT !.is_favorite = fav, !.updated_at = Timestamp(ts)]]

\* create_memoir_entry from step 5 on, for a sample title, story and image:
\* save_journal_entry builds and writes the item
RepoSavePut(uid, ts, uuid, sentiment, store_ok) ==
    /\ Started < MaxRequests
    /\ LET id == EntryId(ts, uuid)
           images == <<ImageMetadata(1, Str(Caption1))>>
           item == EntryItem(uid, id, ts, Str(Title1), Str(Story1), <<>>,
                             ToneDefault, images, sentiment)
       IN  IF store_ok
           THEN /\ journal_table' = PutItem(journal_table, item)
                /\ inflight' = inflight (+) SetToBag({
                       Request("save", uid, id, FALSE, "update_item",
                               <<StoreCall("put_item", TRUE)>>, "", 0, NoItem)})
                /\ UNCHANGED returned
           ELSE /\ Answer(Request("save", uid, id, FALSE, "", 
                                  <<StoreCall("put_item", FALSE)>>, "raised", 500, NoItem))
                /\ UNCHANGED <<journal_table, inflight>>
    /\ UNCHANGED <<handler_vars, users_table>>

\* a save that takes the entry back out when the increment fails
RepoSaveCount_Rollback(o, store_ok) ==
    /\ BagIn(o, inflight)
    /\ o.op = "save"
    /\ o.step = "update_item"
    /\ LET log == Append(o.log, StoreCall("update_item", store_ok))
       IN  IF store_ok
           THEN /\ users_table' = AddTotalEntries(users_table, o.user_id, 1)
                /\ journal_table' = journal_table
                /\ Finish(o, [o EXCEPT !.step = "", !.log = log,
                                       !.result = "entry_id", !.status = 200])
           ELSE /\ users_table' = users_table
                /\ journal_table' = [k \in DOMAIN journal_table \ {<<o.user_id, o.entry_id>>}
                                        |-> journal_table[k]]
                /\ Finish(o, [o EXCEPT !.step = "", !.log = log,
                                       !.result = "raised", !.status = 500])
    /\ UNCHANGED handler_vars

\* save_journal_entry increments the owner's counter and returns; a
\* ClientError of update_item is re-raised and the handler answers 500
RepoSaveCount(o, store_ok) ==
    /\ BagIn(o, inflight)
    /\ o.op = "save"
    /\ o.step = "update_item"
    /\ LET log == Append(o.log, StoreCall("update_item", store_ok))
       IN  IF store_ok
           THEN /\ users_table' = AddTotalEntries(users_table, o.user_id, 1)
                /\ Finish(o, [o EXCEPT !.step = "", !.log = log,
                                       !.result = "entry_id", !.status = 200])
           ELSE /\ users_table' = users_table
                /\ Finish(o, [o EXCEPT !.step = "", !.log = log,
                                       !.result = "raised", !.status = 500])
    /\ UNCHANGED <<handler_vars, journal_table>>

\* GET /users/<user_id>/entries/<entry_id>
GetEntryById(uid, id, store_ok) ==
    /\ Started < MaxRequests
    /\ LET entry == get_entry_by_id(journal_table, uid, id, store_ok)
           log == <<StoreCall("get_item", store_ok)>>
       IN  IF entry = NoItem
           THEN Answer(Request("get", uid, id, FALSE, "", log, "None", 404, NoItem))
           ELSE Answer(Request("get", uid, id, FALSE, "", log, "entry", 200, entry))
    /\ UNCHANGED <<handler_vars, store_vars, inflight>>

\* DELETE /users/<user_id>/entries/<entry_id>: delete_entry checks that the
\* entry exists
DeleteCheck(uid, id, store_ok) ==
    /\ Started < MaxRequests
    /\ LET existing_entry == get_entry_by_id(journal_table, uid, id, store_ok)
           log == <<StoreCall("get_item", store_ok)>>
       IN  IF existing_entry = NoItem
           THEN /\ Answer(Request("delete", uid, id, FALSE, "", log, "False", 404, NoItem))
                /\ UNCHANGED inflight
           ELSE /\ inflight' = inflight (+) SetToBag({
                       Request("delete", uid, id, FALSE, "delete_item", log, "", 0, NoItem)})
                /\ UNCHANGED returned
    /\ UNCHANGED <<handler_vars, store_vars>>

\* a delete without its condition: the delete of an absent item goes through
DeleteWrite_NoCondition(o, store_ok) ==
    /\ BagIn(o, inflight)
    /\ o.op = "delete"
    /\ o.step = "delete_item"
    /\ IF ~store_ok
       THEN /\ Finish(o, [o EXCEPT !.step = "", !.result = "raised", !.status = 500,
                              !.log = Append(o.log, StoreCall("delete_item", FALSE))])
            /\ UNCHANGED journal_table
       ELSE /\ journal_table' = DeleteItem(journal_table, o.user_id, o.entry_id)
            /\ Proceed(o, [o EXCEPT !.step = "update_item",
                               !.log = Append(o.log, StoreCall("delete_item", TRUE))])
            /\ UNCHANGED returned
    /\ UNCHANGED <<handler_vars, users_table>>

\* delete_entry deletes the item on condition that it still exists
DeleteWrite(o, store_ok) ==
    /\ BagIn(o, inflight)
    /\ o.op = "delete"
    /\ o.step = "delete_item"
    /\ IF ~store_ok
       THEN /\ Finish(o, [o EXCEPT !.step = "", !.result = "raised", !.status = 500,
                              !.log = Append(o.log, StoreCall("delete_item", FALSE))])
            /\ UNCHANGED journal_table
       ELSE IF <<o.user_id, o.entry_id>> \notin DOMAIN journal_table
       THEN /\ Finish(o, [o EXCEPT !.step = "", !.result = "False", !.status = 404,
                              !.log = Append(o.log,
                                  StoreCall("delete_item:ConditionalCheckFailed", TRUE))])
            /\ UNCHANGED journal_table
       ELSE /\ journal_table' = DeleteItem(journal_table, o.user_id, o.entry_id)
            /\ Proceed(o, [o EXCEPT !.step = "update_item",
                               !.log = Append(o.log, StoreCall("delete_item", TRUE))])
            /\ UNCHANGED returned
    /\ UNCHANGED <<handler_vars, users_table>>

\* a delete that lets the ClientError of the decrement through
DeleteCount_Raise(o, store_ok) ==
    /\ BagIn(o, inflight)
    /\ o.op = "delete"
    /\ o.step = "update_item"
    /\ IF ~store_ok
       THEN /\ users_table' = users_table
            /\ Finish(o, [o EXCEPT !.step = "", !.result = "raised", !.status = 500,
                              !.log = Append(o.log, StoreCall("update_item", FALSE))])
       ELSE IF ~DecrementAllowed(users_table, o.user_id)
       THEN /\ users_table' = users_table
            /\ Finish(o, [o EXCEPT !.step = "", !.result = "raised", !.status = 500,
                              !.log = Append(o.log,
                                  StoreCall("update_item:ConditionalCheckFailed", TRUE))])
       ELSE /\ users_table' = AddTotalEntries(users_table, o.user_id, -1)
            /\ Finish(o, [o EXCEPT !.step = "", !.result = "True", !.status = 200,
                              !.log = Append(o.log, StoreCall("update_item", TRUE))])
    /\ UNCHANGED <<handler_vars, journal_table>>

\* delete_entry decrements the owner's counter while it is above zero; a
\* ClientError of the update, the failed condition included, is only logged
DeleteCount(o, store_ok) ==
    /\ BagIn(o, inflight)
    /\ o.op = "delete"
    /\ o.step = "update_item"
    /\ IF ~store_ok
       THEN /\ users_table' = users_table
            /\ Finish(o, [o EXCEPT !.step = "", !.result = "True", !.status = 200,
                              !.log = Append(o.log, StoreCall("update_item", FALSE))])
       ELSE IF ~DecrementAllowed(users_table, o.user_id)
       THEN /\ users_table' = users_table
            /\ Finish(o, [o EXCEPT !.step = "", !.result = "True", !.status = 200,
                              !.log = Append(o.log,
                                  StoreCall("update_item:ConditionalCheckFailed", TRUE))])
       ELSE /\ users_table' = AddTotalEntries(users_table, o.user_id, -1)
            /\ Finish(o, [o EXCEPT !.step = "", !.result = "True", !.status = 200,
                              !.log = Append(o.log, StoreCall("update_item", TRUE))])
    /\ UNCHANGED <<handler_vars, journal_table>>

\* PATCH /users/<user_id>/entries/<entry_id>/favorite with a boolean
\* is_favorite: update_entry_favorite checks that the entry exists
FavoriteCheck(uid, id, fav, store_ok) ==
    /\ Started < MaxRequests
    /\ LET existing_entry == get_entry_by_id(journal_table, uid, id, store_ok)
           log == <<StoreCall("get_item", store_ok)>>
       IN  IF existing_entry = NoItem
           THEN /\ Answer(Request("favorite", uid, id, fav, "", log, "False", 404, NoItem))
                /\ UNCHANGED inflight
           ELSE /\ inflight' = inflight (+) SetToBag({
                       Request("favorite", uid, id, fav, "update_item", log, "", 0, NoItem)})
                /\ UNCHANGED returned
    /\ UNCHANGED <<handler_vars, store_vars>>

\* a favorite update without its condition: update_item writes the item
\* whether or not the entry still exists, and creates it when it does not
FavoriteWrite_NoCondition(o, ts, store_ok) ==
    /\ BagIn(o, inflight)
    /\ o.op = "favorite"
    /\ o.step = "update_item"
    /\ IF ~store_ok
       THEN /\ Finish(o, [o EXCEPT !.step = "", !.result = "raised", !.status = 500,
                              !.log = Append(o.log, StoreCall("update_item", FALSE))])
            /\ UNCHANGED journal_table
       ELSE /\ journal_table' =
                   IF <<o.user_id, o.entry_id>> \in DOMAIN journal_table
                   THEN SetFavorite(journal_table, o.user_id, o.entry_id,
                                    o.is_favorite, ts)
                   ELSE [k \in DOMAIN journal_table \cup {<<o.user_id, o.entry_id>>} |->
                            IF k \in DOMAIN journal_table THEN journal_table[k]
                            ELSE [user_id |-> o.user_id, entry_id |-> o.entry_id,
                                  is_favorite |-> o.is_favorite,
                                  updated_at |-> Timestamp(ts)]]
            /\ Finish(o, [o EXCEPT !.step = "", !.result = "True", !.status = 200,
                              !.log = Append(o.log, StoreCall("update_item", TRUE))])
    /\ UNCHANGED <<handler_vars, users_table>>

\* update_entry_favorite sets the flag on condition that the entry still
\* exists
FavoriteWrite(o, ts, store_ok) ==
    /\ BagIn(o, inflight)
    /\ o.op = "favorite"
    /\ o.step = "update_item"
    /\ IF ~store_ok
       THEN /\ Finish(o, [o EXCEPT !.step = "", !.result = "raised", !.status = 500,
                              !.log = Append(o.log, StoreCall("update_item", FALSE))])
            /\ UNCHANGED journal_table
       ELSE IF <<o.user_id, o.entry_id>> \notin DOMAIN journal_table
       THEN /\ Finish(o, [o EXCEPT !.step = "", !.result = "False", !.status = 404,
                              !.log = Append(o.log,
                                  StoreCall("update_item:ConditionalCheckFailed", TRUE))])
            /\ UNCHANGED journal_table
       ELSE /\ journal_table' = SetFavorite(journal_table, o.user_id, o.entry_id,
                                            o.is_favorite, ts)
            /\ Finish(o, [o EXCEPT !.step = "", !.result = "True", !.status = 200,
                              !.log = Append(o.log, StoreCall("update_item", TRUE))])
    /\ UNCHANGED <<handler_vars, users_table>>

RepoNext ==
    \/ \E s \in SaveInputs, store_ok \in StoreOutcomes :
           RepoSavePut(s.user_id, s.ts, s.uuid, s.sentiment, store_ok)
    \/ \E o \in BagToSet(inflight), store_ok \in StoreOutcomes : RepoSaveCount(o, store_ok)
    \/ \E key \in TargetKeys, store_ok \in StoreOutcomes :
           GetEntryById(key[1], key[2], store_ok)
    \/ \E key \in TargetKeys, store_ok \in StoreOutcomes :
           DeleteCheck(key[1], key[2], store_ok)
    \/ \E o \in BagToSet(inflight), store_ok \in StoreOutcomes : DeleteWrite(o, store_ok)
    \/ \E o \in BagToSet(inflight), store_ok \in StoreOutcomes : DeleteCount(o, store_ok)
    \/ \E key \in TargetKeys, fav \in BOOLEAN, store_ok \in StoreOutcomes :
           FavoriteCheck(key[1], key[2], fav, store_ok)
    \/ \E o \in BagToSet(inflight), ts \in Timestamps, store_ok \in StoreOutcomes :
           FavoriteWrite(o, ts, store_ok)

RepoSpec == Init /\ [][RepoNext]_vars

(***************************************************************************)
(* The listing endpoints: one listing request per behaviour, over a store  *)
(* that earlier saves and favorite updates have filled.                    *)
(***************************************************************************)
\* the characters of ids and timestamps in the order of their code points,
\* which is the order of Python's str comparison and of the store's sort key
CodeOrder ==
    <<"-", ".">> \o DigitChars \o <<":">> \o UpperLetters \o <<"_">> \o LowerLetters

\* ord(c), up to the gaps
Ord(c) == CHOOSE k \in 1..Len(CodeOrder) : CodeOrder[k] = c

\* a < b for two str
StrLess(a, b) ==
    \E k \in 1..Len(b) :
        /\ k - 1 <= Len(a)
        /\ SubSeq(a, 1, k - 1) = SubSeq(b, 1, k - 1)
        /\ (k > Len(a) \/ Ord(a[k]) < Ord(b[k]))

\* s.lower()
LowerStr(s) == [k \in 1..Len(s) |-> Lower(s[k])]

\* s[::-1]
Reverse(s) == [k \in 1..Len(s) |-> s[Len(s) + 1 - k]]

\* s[:n] for n >= 0
Take(s, n) == SubSeq(s, 1, IF n < Len(s) THEN n ELSE Len(s))

\* request.args.get('limit'): absent, or the text of the query string
LimitArgs == {None, Str(<<"0">>), Str(<<"1">>), Str(<<"2">>), Str(<<"x">>)}

\* request.args.get('newest_first'): absent, or the text of the query string
NewestFirstArgs == {None, Str(<<"f", "a", "l", "s", "e">>), Str(<<"T", "r", "u", "e">>)}

\* the <user_id> of the path
ListUsers == {User1, User2}

\* the <mood> of the path
MoodArgs == {Joyful, Neutral, Furious, Capitalize(Joyful)}

\* the default of the limit parameter
DefaultLimit == 20

\* 'true', the default of newest_first
TrueText == <<"t", "r", "u", "e">>

\* request.args.get(name, default)
ArgGet(arg, default) == IF arg = None THEN default ELSE arg

\* the text is an optional sign and decimal digits
IsIntLiteral(s) ==
    LET digits == IF s # <<>> /\ s[1] \in {"+", "-"} THEN Tail(s) ELSE s
    IN  /\ digits # <<>>
        /\ \A k \in 1..Len(digits) : \E d \in 1..Len(DigitChars) : DigitChars[d] = digits[k]

RECURSIVE DigitsValue(_)
\* the number that decimal digits denote
DigitsValue(s) ==
    IF s = <<>> THEN 0
    ELSE 10 * DigitsValue(SubSeq(s, 1, Len(s) - 1))
             + (CHOOSE d \in 0..9 : DigitChars[d + 1] = s[Len(s)])

\* int(v) raises ValueError
IntRaises(v) == v.t = "str" /\ ~IsIntLiteral(v.s)

\* int(v) for a number or the text of one
IntOf(v) ==
    IF v.t = "num" THEN v.n
    ELSE IF v.s[1] = "-" THEN 0 - DigitsValue(Tail(v.s))
    ELSE IF v.s[1] = "+" THEN DigitsValue(Tail(v.s))
    ELSE DigitsValue(v.s)

\* request.args.get('newest_first', 'true').lower() == 'true'
NewestFirst(arg) == LowerStr(ArgGet(arg, Str(TrueText)).s) = TrueText

RECURSIVE SortedIds(_)
\* the entry ids of a set in ascending sort-key order
SortedIds(ids) ==
    IF ids = {} THEN <<>>
    ELSE LET least == CHOOSE x \in ids : \A y \in ids \ {x} : StrLess(x, y)
         IN  <<least>> \o SortedIds(ids \ {least})

\* the rows that journal_table.query(KeyConditionExpression='user_id =
\* :user_id', ScanIndexForward=forward, Limit=limit) reads: the entries of
\* the user in sort-key order, the first limit of them
QueryRows(table, uid, forward, limit) ==
    LET ids == SortedIds({k[2] : k \in {x \in DOMAIN table : x[1] = uid}})
        ordered == IF forward THEN ids ELSE Reverse(ids)
    IN  [k \in 1..Len(Take(ordered, limit)) |-> table[<<uid, ordered[k]>>]]

\* the Limit of a query has to be at least 1, else the call raises
\* ParamValidationError, which is no ClientError
LimitRaises(limit) == limit < 1

RECURSIVE InsertByCreatedAt(_, _)
\* e put into a sequence sorted by created_at, after its equals
InsertByCreatedAt(sorted, e) ==
    IF sorted = <<>> THEN <<e>>
    ELSE IF StrLess(e.created_at, Head(sorted).created_at) THEN <<e>> \o sorted
    ELSE <<Head(sorted)>> \o InsertByCreatedAt(Tail(sorted), e)

RECURSIVE SortedByCreatedAt(_)
\* sorted(entries, key=lambda x: x.get('created_at', '')): stable
SortedByCreatedAt(entries) ==
    IF entries = <<>> THEN <<>>
    ELSE InsertByCreatedAt(SortedByCreatedAt(SubSeq(entries, 1, Len(entries) - 1)),
                           entries[Len(entries)])

\* entries.sort(key=lambda x: x.get('created_at', ''), reverse=reverse):
\* reverse keeps the order of equals
SortByCreatedAt(entries, reverse) ==
    IF reverse THEN Reverse(SortedByCreatedAt(Reverse(entries)))
    ELSE SortedByCreatedAt(entries)

\* FilterExpression='is_favorite = :is_favorite' with True
FavoriteFilter(rows) ==
    LET IsFavorite(e) == e.is_favorite = TRUE IN SelectSeq(rows, IsFavorite)

\* a favorites listing whose query reads every row of the user
get_favorite_entries_AllRows(table, uid, limit, newest_first, store_ok) ==
    IF LimitRaises(limit * 2) \/ ~store_ok THEN <<>>
    ELSE Take(SortByCreatedAt(
                  FavoriteFilter(QueryRows(table, uid, ~newest_first,
                                           Cardinality(DOMAIN table) + 1)),
                  newest_first),
              limit)

\* DatabaseService.get_favorite_entries: the query reads limit * 2 rows and
\* filters them, the result is sorted by created_at and cut to limit; every
\* exception yields []
get_favorite_entries(table, uid, limit, newest_first, store_ok) ==
    IF LimitRaises(limit * 2) \/ ~store_ok THEN <<>>
    ELSE Take(SortByCreatedAt(
                  FavoriteFilter(QueryRows(table, uid, ~newest_first, limit * 2)),
                  newest_first),
              limit)

\* FilterExpression='primary_mood = :mood'
MoodFilter(rows, mood) ==
    LET HasMood(e) == e.primary_mood = Str(mood) IN SelectSeq(rows, HasMood)

\* what the query of MoodIndex can return: limit of the user's entries of
\* the mood, or all when there are fewer, in an order the index decides
MoodIndexRows(table, uid, mood, limit) ==
    LET keys == {k \in DOMAIN table : k[1] = uid /\ table[k].primary_mood = Str(mood)}
        n == IF limit < Cardinality(keys) THEN limit ELSE Cardinality(keys)
    IN  {[k \in 1..n |-> table[f[k]]] :
            f \in {g \in [1..n -> keys] : \A a, b \in 1..n : a # b => g[a] # g[b]}}

\* the fallback of get_entries_by_mood: query, filter, cut
MoodFallbackRows(table, uid, mood, limit) ==
    Take(MoodFilter(QueryRows(table, uid, FALSE, limit * 2), mood), limit)

\* a listing request: the parameters as sent, limit and newest_first as the
\* handler reads them, the store calls made, the status and error of the
\* answer and its entries
ListRequest(op, uid, limit_arg, newest_arg, mood, limit, newest_first, log, status, error, entries) ==
    [op |-> op, user_id |-> uid, limit_arg |-> limit_arg, newest_arg |-> newest_arg,
     mood |-> mood, limit |-> limit, newest_first |-> newest_first,
     log |-> log, status |-> status, error |-> error, entries |-> entries]

\* DatabaseService.get_user_entries: the rows of the query; [] on a
\* ClientError
get_user_entries(table, uid, limit, newest_first, store_ok) ==
    IF store_ok THEN QueryRows(table, uid, ~newest_first, limit) ELSE <<>>

\* GET /users/<user_id>/entries: a ValueError of int() and the
\* ParamValidationError of a Limit below 1 both reach `except Exception`
GetUserEntries(uid, limit_arg, newest_arg, store_ok) ==
    /\ Started = 0
    /\ LET limit_value == ArgGet(limit_arg, Num(DefaultLimit))
       IN  IF IntRaises(limit_value)
           THEN Answer(ListRequest("entries", uid, limit_arg, newest_arg, <<>>,
                                   0, FALSE, <<>>, 500, "ValueError", <<>>))
           ELSE LET limit == IntOf(limit_value)
                    newest_first == NewestFirst(newest_arg)
                IN  IF LimitRaises(limit)
                    THEN Answer(ListRequest("entries", uid, limit_arg, newest_arg, <<>>,
                                            limit, newest_first, <<>>, 500,
                                            "ParamValidationError", <<>>))
                    ELSE Answer(ListRequest("entries", uid, limit_arg, newest_arg, <<>>,
                                            limit, newest_first,
                                            <<StoreCall("query", store_ok)>>, 200, "",
                                            get_user_entries(journal_table, uid, limit,
                                                             newest_first, store_ok)))
    /\ UNCHANGED <<handler_vars, store_vars, inflight>>

\* GET /users/<user_id>/entries/favorites
GetFavoriteEntries(uid, limit_arg, newest_arg, store_ok) ==
    /\ Started = 0
    /\ LET limit_value == ArgGet(limit_arg, Num(DefaultLimit))
       IN  IF IntRaises(limit_value)
           THEN Answer(ListRequest("favorites", uid, limit_arg, newest_arg, <<>>,
                                   0, FALSE, <<>>, 400, "Invalid limit parameter", <<>>))
           ELSE LET limit == IntOf(limit_value)
                    newest_first == NewestFirst(newest_arg)
                    log == IF LimitRaises(limit * 2) THEN <<>>
                           ELSE <<StoreCall("query", store_ok)>>
                IN  Answer(ListRequest("favorites", uid, limit_arg, newest_arg, <<>>,
                                       limit, newest_first, log, 200, "",
                                       get_favorite_entries(journal_table, uid, limit,
                                                            newest_first, store_ok)))
    /\ UNCHANGED <<handler_vars, store_vars, inflight>>

\* a vocabulary that lets one more mood through
valid_moods_Extended == MoodVocabulary \cup {Furious}

\* valid_moods of get_entries_by_mood
valid_moods ==
    {Joyful, Nostalgic, Adventurous, Peaceful, Melancholic, Excited,
     Grateful, Reflective, Neutral}

\* GET /users/<user_id>/entries/mood/<mood>: the limit is read, the mood is
\* validated, and get_entries_by_mood queries MoodIndex and, on a
\* ClientError of that query, the table with a filter; a ClientError of the
\* fallback yields []
GetEntriesByMood(uid, mood, limit_arg, index_ok, fallback_ok) ==
    /\ Started = 0
    /\ LET limit_value == ArgGet(limit_arg, Num(DefaultLimit))
       IN  IF IntRaises(limit_value)
           THEN Answer(ListRequest("mood", uid, limit_arg, None, mood, 0, TRUE,
                                   <<>>, 400, "Invalid limit parameter", <<>>))
           ELSE IF mood \notin valid_moods
           THEN Answer(ListRequest("mood", uid, limit_arg, None, mood,
                                   IntOf(limit_value), TRUE,
                                   <<>>, 400, "Invalid mood", <<>>))
           ELSE LET limit == IntOf(limit_value)
                IN  IF LimitRaises(limit)
                    THEN Answer(ListRequest("mood", uid, limit_arg, None, mood, limit,
                                            TRUE, <<>>, 200, "", <<>>))
                    ELSE IF index_ok
                    THEN \E rows \in MoodIndexRows(journal_table, uid, mood, limit) :
                             Answer(ListRequest("mood", uid, limit_arg, None, mood, limit,
                                                TRUE, <<StoreCall("query:MoodIndex", TRUE)>>,
                                                200, "", rows))
                    ELSE Answer(ListRequest("mood", uid, limit_arg, None, mood, limit, TRUE,
                                    <<StoreCall("query:MoodIndex", FALSE),
                                      StoreCall("query", fallback_ok)>>,
                                    200, "",
                                    IF fallback_ok
                                    THEN MoodFallbackRows(journal_table, uid, mood, limit)
                                    ELSE <<>>))
    /\ UNCHANGED <<handler_vars, store_vars, inflight>>

\* the clock of the favorite updates that filled the store
FavoriteUpdateTime == [sec |-> 56, usec |-> 0]

\* the store after the saves of a set of inputs and after favorite updates
\* on some of their entries
StoreAfter(saved, favorites) ==
    [k \in {<<s.user_id, EntryId(s.ts, s.uuid)>> : s \in saved} |->
        LET s == CHOOSE x \in saved : <<x.user_id, EntryId(x.ts, x.uuid)>> = k
            item == EntryItem(s.user_id, k[2], s.ts, Str(Title1), Str(Story1), <<>>,
                              ToneDefault, <<ImageMetadata(1, Str(Caption1))>>,
                              s.sentiment)
        IN  IF s \in favorites
            THEN [item EXCEPT !.is_favorite = TRUE,
                              !.updated_at = Timestamp(FavoriteUpdateTime)]
            ELSE item]

\* the counters after the saves of a set of inputs
CountersAfter(saved) ==
    [u \in {s.user_id : s \in saved} |->
        [user_id |-> u, total_entries |-> Cardinality({s \in saved : s.user_id = u})]]

\* no request is under way, the store holds what earlier requests left
ListInit ==
    /\ pc = "Idle"
    /\ req = NoData
    /\ i = 0
    /\ captions = <<>>
    /\ image_metadata = <<>>
    /\ story_content = None
    /\ sentiment_analysis = None
    /\ title = None
    /\ put_done = FALSE
    /\ entry_id = <<>>
    /\ response = NoResponse
    /\ calls = <<>>
    /\ inflight = EmptyBag
    /\ returned = EmptyBag
    /\ \E saved \in SUBSET SaveInputs, favorites \in SUBSET SaveInputs :
           /\ favorites \subseteq saved
           /\ journal_table = StoreAfter(saved, favorites)
           /\ users_table = CountersAfter(saved)

ListNext ==
    \/ \E uid \in ListUsers, limit_arg \in LimitArgs, newest_arg \in NewestFirstArgs,
          store_ok \in BOOLEAN :
           GetUserEntries(uid, limit_arg, newest_arg, store_ok)
    \/ \E uid \in ListUsers, limit_arg \in LimitArgs, newest_arg \in NewestFirstArgs,
          store_ok \in BOOLEAN :
           GetFavoriteEntries(uid, limit_arg, newest_arg, store_ok)
    \/ \E uid \in ListUsers, mood \in MoodArgs, limit_arg \in LimitArgs,
          index_ok \in BOOLEAN, fallback_ok \in BOOLEAN :
           GetEntriesByMood(uid, mood, limit_arg, index_ok, fallback_ok)

ListSpec == ListInit /\ [][ListNext]_vars

(***************************************************************************)
(* The user and auth endpoints: create user, register, login and change    *)
(* password run concurrently, each taking one step per store call.         *)
(***************************************************************************)
\* ' A@x.io'
EmailRaw == <<" ", "A", "@", "x", ".", "i", "o">>

\* 'a@x.io'
EmailNorm == <<"a", "@", "x", ".", "i", "o">>

\* 'ab'
EmailBad == <<"a", "b">>

\* 'secret'
Pw1 == <<"s", "e", "c", "r", "e", "t">>

\* 'hunter2'
Pw2 == <<"h", "u", "n", "t", "e", "r", "2">>

\* 'short'
PwShort == <<"s", "h", "o", "r", "t">>

\* 'user_'
UserPrefix == <<"u", "s", "e", "r", "_">>

\* the least len(password) that register and change-password accept
MinPasswordLength == 6

RECURSIVE LStrip(_)
\* s.lstrip()
LStrip(s) == IF s # <<>> /\ Head(s) \in Whitespace THEN LStrip(Tail(s)) ELSE s

\* s.strip()
Strip(s) == Reverse(LStrip(Reverse(LStrip(s))))

\* data['email'].strip().lower()
NormalizeEmail(s) == LowerStr(Strip(s))

\* c in s for one character
HasChar(s, c) == \E k \in 1..Len(s) : s[k] = c

\* bcrypt.gensalt()
Salts == {"salt1", "salt2"}

\* bcrypt.hashpw(password, salt): the salt and a digest that stands for the
\* password it was made of
HashPw(password, salt) == [alg |-> "bcrypt", salt |-> salt, digest |-> password]

\* user.get('password_hash', '') is '' and bcrypt.checkpw raises ValueError
CheckPwRaises(user) == "password_hash" \notin DOMAIN user

\* a check that lets every password through
CheckPw_Always(password, user) == TRUE

\* bcrypt.checkpw(password, user['password_hash'])
CheckPw(password, user) ==
    user.password_hash = HashPw(password, user.password_hash.salt)

\* f"user_{str(uuid.uuid4())[:8]}"
UserIdOf(uuid) == UserPrefix \o uuid

\* user_item of create_user
EmailOnlyUser(uid, email, ts) ==
    [user_id |-> uid, email |-> email, created_at |-> Timestamp(ts),
     last_login |-> Timestamp(ts), subscription_status |-> "free",
     total_entries |-> 0]

\* user_item of create_user_with_password
PasswordUser(uid, email, password_hash, ts) ==
    [user_id |-> uid, email |-> email, password_hash |-> password_hash,
     created_at |-> Timestamp(ts), last_login |-> Timestamp(ts),
     subscription_status |-> "free", total_entries |-> 0, is_active |-> TRUE]

\* users_table.put_item(Item=user_item)
PutUser(table, item) ==
    [u \in DOMAIN table \cup {item.user_id} |->
        IF u = item.user_id THEN item ELSE table[u]]

\* what get_user_by_email can return: an item of EmailIndex with the email,
\* the first one the index yields, or None when there is none or the query
\* raises ClientError
get_user_by_email(table, email, store_ok) ==
    LET items == {table[u] : u \in {x \in DOMAIN table :
                                        "email" \in DOMAIN table[x] /\ table[x].email = email}}
    IN  IF store_ok /\ items # {} THEN items ELSE {NoItem}

\* DatabaseService.get_user: the item, None when it is absent or get_item
\* raises ClientError
get_user(table, uid, store_ok) ==
    IF store_ok /\ uid \in DOMAIN table THEN table[uid] ELSE NoItem

\* the user without its password_hash
StripHash(user) == [k \in DOMAIN user \ {"password_hash"} |-> user[k]]

\* an auth request: the body as sent, the email as the handler reads it,
\* the store calls made, the user record read, and the status and the user
\* record of the answer
AuthRequest(op, uid, email_arg, email, password, new_password, step, log, user, status, body) ==
    [op |-> op, user_id |-> uid, email_arg |-> email_arg, email |-> email,
     password |-> password, new_password |-> new_password, step |-> step,
     log |-> log, user |-> user, status |-> status, body |-> body]

\* bodies of POST /users
CreateUserInputs == {None, Str(EmailRaw)}

\* bodies of POST /auth/register
RegisterInputs ==
    { [email |-> Str(EmailRaw), password |-> Str(Pw1)],
      [email |-> Str(EmailNorm), password |-> Str(Pw2)],
      [email |-> Str(EmailNorm), password |-> Str(PwShort)],
      [email |-> Str(EmailBad), password |-> Str(Pw1)],
      [email |-> None, password |-> Str(Pw1)] }

\* bodies of POST /auth/login
LoginInputs ==
    { [email |-> Str(EmailRaw), password |-> Str(Pw1)],
      [email |-> Str(EmailNorm), password |-> Str(Pw2)],
      [email |-> Str(EmailNorm), password |-> None] }

\* 'user_legacy01'
DormantId == UserPrefix \o <<"l", "e", "g", "a", "c", "y", "0", "1">>

\* bodies of POST /auth/change-password
ChangePasswordInputs ==
    { [user_id |-> Str(DormantId), current_password |-> Str(Pw1),
       new_password |-> Str(Pw2)],
      [user_id |-> Str(DormantId), current_password |-> Str(Pw1),
       new_password |-> Str(Pw1)],
      [user_id |-> Str(UserIdOf(Uuid1)), current_password |-> Str(Pw1),
       new_password |-> Str(Pw2)],
      [user_id |-> Str(UserIdOf(Uuid1)), current_password |-> Str(Pw1),
       new_password |-> Str(PwShort)],
      [user_id |-> Str(UserIdOf(Uuid1)), current_password |-> None,
       new_password |-> Str(Pw2)] }

\* datetime.utcnow() when a user record is written
CreationTimes == {[sec |-> 55, usec |-> 0]}

\* datetime.utcnow() when last_login or the password is updated
UpdateTimes == {[sec |-> 55, usec |-> 123456]}

\* POST /users: the email is looked up as sent
CreateUser(email_arg, store_ok) ==
    /\ Started < MaxRequests
    /\ IF email_arg = None
       THEN /\ Answer(AuthRequest("create_user", <<>>, email_arg, <<>>, <<>>, <<>>, "",
                                  <<>>, NoItem, 400, NoItem))
            /\ UNCHANGED inflight
       ELSE \E existing_user \in get_user_by_email(users_table, email_arg.s, store_ok) :
                LET log == <<StoreCall("query:EmailIndex", store_ok)>>
                IN  IF existing_user # NoItem
                    THEN /\ Answer(AuthRequest("create_user", <<>>, email_arg, email_arg.s,
                                               <<>>, <<>>, "", log, existing_user, 409, NoItem))
                         /\ UNCHANGED inflight
                    ELSE /\ inflight' = inflight (+) SetToBag({
                                AuthRequest("create_user", <<>>, email_arg, email_arg.s,
                                            <<>>, <<>>, "put_item", log, NoItem, 0, NoItem)})
                         /\ UNCHANGED returned
    /\ UNCHANGED <<handler_vars, store_vars>>

\* create_user writes the record; a ClientError is re-raised, answered 500
CreateUserPut(o, uuid, ts, store_ok) ==
    /\ BagIn(o, inflight)
    /\ o.op = "create_user"
    /\ o.step = "put_item"
    /\ LET log == Append(o.log, StoreCall("put_item", store_ok))
           item == EmailOnlyUser(UserIdOf(uuid), o.email, ts)
       IN  IF store_ok
           THEN /\ users_table' = PutUser(users_table, item)
                /\ Finish(o, [o EXCEPT !.step = "", !.log = log, !.user_id = item.user_id,
                                       !.status = 200])
           ELSE /\ users_table' = users_table
                /\ Finish(o, [o EXCEPT !.step = "", !.log = log, !.status = 500])
    /\ UNCHANGED <<handler_vars, journal_table>>

\* POST /auth/register up to the lookup of create_user_with_password
Register(email_arg, password_arg, store_ok) ==
    /\ Started < MaxRequests
    /\ IF email_arg = None \/ password_arg = None
       THEN /\ Answer(AuthRequest("register", <<>>, email_arg, <<>>, <<>>, <<>>, "",
                                  <<>>, NoItem, 400, NoItem))
            /\ UNCHANGED inflight
       ELSE LET email == NormalizeEmail(email_arg.s)
                password == password_arg.s
            IN  IF \/ Len(password) < MinPasswordLength
                   \/ ~HasChar(email, "@")
                   \/ ~HasChar(email, ".")
                THEN /\ Answer(AuthRequest("register", <<>>, email_arg, email, password,
                                           <<>>, "", <<>>, NoItem, 400, NoItem))
                     /\ UNCHANGED inflight
                ELSE \E existing_user \in get_user_by_email(users_table, email, store_ok) :
                         LET log == <<StoreCall("query:EmailIndex", store_ok)>>
                         IN  IF existing_user # NoItem
                             THEN /\ Answer(AuthRequest("register", <<>>, email_arg, email,
                                                password, <<>>, "", log, existing_user,
                                                409, NoItem))
                                  /\ UNCHANGED inflight
                             ELSE /\ inflight' = inflight (+) SetToBag({
                                         AuthRequest("register", <<>>, email_arg, email,
                                             password, <<>>, "put_item", log, NoItem,
                                             0, NoItem)})
                                  /\ UNCHANGED returned
    /\ UNCHANGED <<handler_vars, store_vars>>

\* create_user_with_password hashes the password and writes the record; a
\* ClientError is re-raised, answered 500
RegisterPut(o, uuid, ts, salt, store_ok) ==
    /\ BagIn(o, inflight)
    /\ o.op = "register"
    /\ o.step = "put_item"
    /\ LET log == Append(o.log, StoreCall("put_item", store_ok))
           item == PasswordUser(UserIdOf(uuid), o.email, HashPw(o.password, salt), ts)
       IN  IF store_ok
           THEN /\ users_table' = PutUser(users_table, item)
                /\ Finish(o, [o EXCEPT !.step = "", !.log = log, !.user_id = item.user_id,
                                       !.status = 200])
           ELSE /\ users_table' = users_table
                /\ Finish(o, [o EXCEPT !.step = "", !.log = log, !.status = 500])
    /\ UNCHANGED <<handler_vars, journal_table>>

\* POST /auth/login up to the password check of authenticate_user, which
\* turns every exception into None
Login(email_arg, password_arg, store_ok) ==
    /\ Started < MaxRequests
    /\ IF email_arg = None \/ password_arg = None
       THEN /\ Answer(AuthRequest("login", <<>>, email_arg, <<>>, <<>>, <<>>, "",
                                  <<>>, NoItem, 400, NoItem))
            /\ UNCHANGED inflight
       ELSE LET email == NormalizeEmail(email_arg.s)
                password == password_arg.s
                log == <<StoreCall("query:EmailIndex", store_ok)>>
            IN  \E user \in get_user_by_email(users_table, email, store_ok) :
                    IF \/ user = NoItem
                       \/ ("is_active" \in DOMAIN user /\ ~user.is_active)
                       \/ CheckPwRaises(user)
                       \/ ~CheckPw(password, user)
                    THEN /\ Answer(AuthRequest("login", <<>>, email_arg, email, password,
                                               <<>>, "", log, user, 401, NoItem))
                         /\ UNCHANGED inflight
                    ELSE /\ inflight' = inflight (+) SetToBag({
                                AuthRequest("login", user.user_id, email_arg, email,
                                            password, <<>>, "update_item", log, user,
                                            0, NoItem)})
                         /\ UNCHANGED returned
    /\ UNCHANGED <<handler_vars, store_vars>>

\* update_user_last_login, whose ClientError is only logged, and the 200
\* answer with the user as read, without its password_hash
LoginTouch(o, ts, store_ok) ==
    /\ BagIn(o, inflight)
    /\ o.op = "login"
    /\ o.step = "update_item"
    /\ users_table' =
           IF ~store_ok THEN users_table
           ELSE IF o.user_id \in DOMAIN users_table
           THEN [users_table EXCEPT ![o.user_id].last_login = Timestamp(ts)]
           ELSE PutUser(users_table, [user_id |-> o.user_id, last_login |-> Timestamp(ts)])
    /\ Finish(o, [o EXCEPT !.step = "", !.status = 200, !.body = StripHash(o.user),
                           !.log = Append(o.log, StoreCall("update_item", store_ok))])
    /\ UNCHANGED <<handler_vars, journal_table>>

\* POST /auth/change-password up to the check of the current password
ChangePassword(uid_arg, current_arg, new_arg, store_ok) ==
    /\ Started < MaxRequests
    /\ IF uid_arg = None \/ current_arg = None \/ new_arg = None
       THEN /\ Answer(AuthRequest("change_password", <<>>, None, <<>>, <<>>, <<>>, "",
                                  <<>>, NoItem, 400, NoItem))
            /\ UNCHANGED inflight
       ELSE IF Len(new_arg.s) < MinPasswordLength
       THEN /\ Answer(AuthRequest("change_password", uid_arg.s, None, <<>>, current_arg.s,
                                  new_arg.s, "", <<>>, NoItem, 400, NoItem))
            /\ UNCHANGED inflight
       ELSE LET user == get_user(users_table, uid_arg.s, store_ok)
                log == <<StoreCall("get_item", store_ok)>>
                status == IF user = NoItem THEN 404
                          ELSE IF CheckPwRaises(user) THEN 500
                          ELSE IF ~CheckPw(current_arg.s, user) THEN 401
                          ELSE 0
            IN  IF status # 0
                THEN /\ Answer(AuthRequest("change_password", uid_arg.s, None, <<>>,
                                           current_arg.s, new_arg.s, "", log, user,
                                           status, NoItem))
                     /\ UNCHANGED inflight
                ELSE /\ inflight' = inflight (+) SetToBag({
                            AuthRequest("change_password", uid_arg.s, None, <<>>,
                                        current_arg.s, new_arg.s, "update_item", log,
                                        user, 0, NoItem)})
                     /\ UNCHANGED returned
    /\ UNCHANGED <<handler_vars, store_vars>>

\* update_user_password: the new hash is SET; a ClientError yields False,
\* answered 500
ChangePasswordWrite(o, ts, salt, store_ok) ==
    /\ BagIn(o, inflight)
    /\ o.op = "change_password"
    /\ o.step = "update_item"
    /\ LET log == Append(o.log, StoreCall("update_item", store_ok))
       IN  IF store_ok
           THEN /\ users_table' =
                       [users_table EXCEPT ![o.user_id] =
                           [k \in DOMAIN @ \cup {"password_hash", "updated_at"} |->
                               IF k = "password_hash" THEN HashPw(o.new_password, salt)
                               ELSE IF k = "updated_at" THEN Timestamp(ts)
                               ELSE @[k]]]
                /\ Finish(o, [o EXCEPT !.step = "", !.log = log, !.status = 200])
           ELSE /\ users_table' = users_table
                /\ Finish(o, [o EXCEPT !.step = "", !.log = log, !.status = 500])
    /\ UNCHANGED <<handler_vars, journal_table>>

\* GET /users/<user_id>: 404 when get_user yields None, which it does for an
\* absent user and for a ClientError alike; else the item as stored
GetUser(uid, store_ok) ==
    /\ Started < MaxRequests
    /\ LET user == get_user(users_table, uid, store_ok)
           log == <<StoreCall("get_item", store_ok)>>
       IN  Answer(AuthRequest("get_user", uid, None, <<>>, <<>>, <<>>, "", log, user,
                              IF user = NoItem THEN 404 ELSE 200, user))
    /\ UNCHANGED <<inflight, handler_vars, store_vars>>

\* an account that was registered with 'secret' and whose is_active was
\* cleared in the table, which no endpoint does
DormantUser ==
    [PasswordUser(DormantId, EmailNorm, HashPw(Pw1, "salt1"), [sec |-> 54, usec |-> 0])
        EXCEPT !.is_active = FALSE]

\* no request is under way; the users table is empty or holds the dormant
\* account
AuthInit ==
    /\ pc = "Idle"
    /\ req = NoData
    /\ i = 0
    /\ captions = <<>>
    /\ image_metadata = <<>>
    /\ story_content = None
    /\ sentiment_analysis = None
    /\ title = None
    /\ put_done = FALSE
    /\ entry_id = <<>>
    /\ response = NoResponse
    /\ calls = <<>>
    /\ inflight = EmptyBag
    /\ returned = EmptyBag
    /\ journal_table = <<>>
    /\ users_table \in {<<>>, PutUser(<<>>, DormantUser)}

AuthNext ==
    \/ \E email_arg \in CreateUserInputs, store_ok \in StoreOutcomes :
           CreateUser(email_arg, store_ok)
    \/ \E o \in BagToSet(inflight), uuid \in Uuids, ts \in CreationTimes,
          store_ok \in StoreOutcomes :
           CreateUserPut(o, uuid, ts, store_ok)
    \/ \E body \in RegisterInputs, store_ok \in StoreOutcomes :
           Register(body.email, body.password, store_ok)
    \/ \E o \in BagToSet(inflight), uuid \in Uuids, ts \in CreationTimes, salt \in Salts,
          store_ok \in StoreOutcomes :
           RegisterPut(o, uuid, ts, salt, store_ok)
    \/ \E body \in LoginInputs, store_ok \in StoreOutcomes :
           Login(body.email, body.password, store_ok)
    \/ \E o \in BagToSet(inflight), ts \in UpdateTimes, store_ok \in StoreOutcomes :
           LoginTouch(o, ts, store_ok)
    \/ \E body \in ChangePasswordInputs, store_ok \in StoreOutcomes :
           ChangePassword(body.user_id, body.current_password, body.new_password, store_ok)
    \/ \E o \in BagToSet(inflight), ts \in UpdateTimes, salt \in Salts,
          store_ok \in StoreOutcomes :
           ChangePasswordWrite(o, ts, salt, store_ok)
    \/ \E uid \in DOMAIN users_table \cup {DormantId}, store_ok \in StoreOutcomes :
           GetUser(uid, store_ok)

AuthSpec == AuthInit /\ [][AuthNext]_vars

(***************************************************************************)
(* Properties of the entry endpoints.                                      *)
(***************************************************************************)
\* the request r is answered in this step
AnsweredNow(r) == CopiesIn(r, returned') = CopiesIn(r, returned) + 1

\* the request r under way has reached its present step in this step
AdvancedNow(r) == CopiesIn(r, inflight') = CopiesIn(r, inflight) + 1

\* the key that the request r names
KeyOf(r) == <<r.user_id, r.entry_id>>

\* the requests of a bag with the given endpoint
RequestsOf(bag, op) == {r \in BagToSet(bag) : r.op = op}

\* total_entries of a user, 0 for a user without a counter
TotalEntries(table, uid) ==
    IF uid \in DOMAIN table THEN table[uid].total_entries ELSE 0

\* the log of a save whose put_item went through and whose counter
\* increment failed
C12_IncrementFailedLog ==
    <<[call |-> "put_item", ok |-> TRUE], [call |-> "update_item", ok |-> FALSE]>>

\* C12: when the increment of total_entries fails after the entry write of
\* a save went through, the save takes nothing back: the step that fails
\* leaves every stored entry as it is, and the entry written, while no
\* delete has removed it, is what getById of its (user_id, entry_id) returns
C12_NoRollback ==
    [][ \A r \in RequestsOf(returned', "save") :
            (AnsweredNow(r) /\ r.log = C12_IncrementFailedLog)
            => /\ r.result = "raised"
               /\ journal_table' = journal_table
               /\ KeyOf(r) \in DOMAIN journal_table
                  => /\ KeyOf(r) \in DOMAIN journal_table'
                     /\ get_entry_by_id(journal_table', r.user_id, r.entry_id, TRUE)
                            = journal_table[KeyOf(r)] ]_vars

\* C12 witness: a save failed at the increment, its entry is stored, and a
\* getById of the same key has returned that entry
C12_Witness ==
    \E r \in RequestsOf(returned, "save") :
        /\ r.log = C12_IncrementFailedLog
        /\ KeyOf(r) \in DOMAIN journal_table
        /\ TotalEntries(users_table, r.user_id) = 0
        /\ \E g \in RequestsOf(returned, "get") :
               /\ KeyOf(g) = KeyOf(r)
               /\ g.result = "entry"
               /\ g.item = journal_table[KeyOf(r)]

\* C13: a delete that is answered not-found names a key that is not stored
\* and changes neither table; the removal of a delete takes exactly the
\* entry of its key out of the store; and a delete that is answered true
\* after its decrement went to the store has lowered the owner's
\* total_entries by 1 when it was above 0 and has left it alone otherwise
C13_DeleteContract ==
    [][ /\ \A r \in RequestsOf(returned', "delete") :
               AnsweredNow(r)
               => /\ r.result = "False"
                     => /\ KeyOf(r) \notin DOMAIN journal_table
                        /\ UNCHANGED store_vars
                  /\ (r.result = "True" /\ r.log[Len(r.log)].ok)
                     => /\ TotalEntries(users_table', r.user_id)
                             = (IF TotalEntries(users_table, r.user_id) > 0
                                THEN TotalEntries(users_table, r.user_id) - 1
                                ELSE 0)
                        /\ \A u \in DOMAIN users_table \ {r.user_id} :
                               /\ u \in DOMAIN users_table'
                               /\ users_table'[u] = users_table[u]
        /\ \A o \in RequestsOf(inflight', "delete") :
               (AdvancedNow(o) /\ o.step = "update_item")
               => /\ KeyOf(o) \in DOMAIN journal_table
                  /\ DOMAIN journal_table' = DOMAIN journal_table \ {KeyOf(o)}
                  /\ \A k \in DOMAIN journal_table' : journal_table'[k] = journal_table[k]
      ]_vars

C15_TotalEntriesNonNegative ==
    \A u \in DOMAIN users_table : users_table[u].total_entries \in Nat

\* C15 witness: a save and a delete of one user have both returned, and the
\* decrement of the delete met a counter that was not above zero
C15_Witness ==
    \E d \in RequestsOf(returned, "delete"), s \in RequestsOf(returned, "save") :
        /\ d.user_id = s.user_id
        /\ s.result = "entry_id"
        /\ d.result = "True"
        /\ d.log[3] = [call |-> "update_item:ConditionalCheckFailed", ok |-> TRUE]
        /\ users_table[d.user_id].total_entries = 1

\* the saves of a user that have returned an entry_id
C16_SuccessfulSaves(uid) ==
    LET saves == {r \in RequestsOf(returned, "save") :
                      r.user_id = uid /\ r.result = "entry_id"}
    IN  BagCardinality([r \in saves |-> CopiesIn(r, returned)])

\* C16: no increment is lost: while no delete of a user has been started,
\* the user's total_entries is the number of that user's saves that have
\* returned successfully, however the saves interleave
C16_NoLostIncrement ==
    \A s \in SaveInputs :
        (\A d \in RequestsOf(inflight, "delete") \cup RequestsOf(returned, "delete") :
             d.user_id # s.user_id)
        => TotalEntries(users_table, s.user_id) = C16_SuccessfulSaves(s.user_id)

\* C16 witness: three saves of one user, and no delete, have returned
\* successfully and the counter is 3
C16_Witness ==
    /\ C16_SuccessfulSaves(User1) = 3
    /\ TotalEntries(users_table, User1) = 3
    /\ RequestsOf(returned, "delete") = {}

\* C17: a setFavorite whose conditional write reaches the store after the
\* entry is gone returns not-found (false, 404), raises nothing and changes
\* nothing; and a setFavorite returns true only in a step that applies its
\* write to an entry that is stored
C17_FavoriteRace ==
    [][ \A r \in RequestsOf(returned', "favorite") :
            AnsweredNow(r)
            => /\ ( /\ Len(r.log) = 2
                    /\ r.log[2].ok
                    /\ KeyOf(r) \notin DOMAIN journal_table )
                  => /\ r.result = "False"
                     /\ r.status = 404
                     /\ UNCHANGED store_vars
               /\ r.result = "True"
                  => /\ KeyOf(r) \in DOMAIN journal_table
                     /\ KeyOf(r) \in DOMAIN journal_table'
                     /\ journal_table'[KeyOf(r)].is_favorite = r.is_favorite ]_vars

\* C17 witness: a setFavorite has found its entry, a delete of the same key
\* has removed it, and the setFavorite has then returned not-found
C17_Witness ==
    \E f \in RequestsOf(returned, "favorite"), d \in RequestsOf(returned, "delete") :
        /\ KeyOf(f) = KeyOf(d)
        /\ d.result = "True"
        /\ f.log = <<[call |-> "get_item", ok |-> TRUE],
                     [call |-> "update_item:ConditionalCheckFailed", ok |-> TRUE]>>
        /\ f.result = "False"
        /\ f.status = 404

\* the clock reading that a created_at was written from
C18_CreatedAt(e) == CHOOSE ts \in {s.ts : s \in SaveInputs} : Timestamp(ts) = e.created_at

\* the clock reading a is not after b
C18_NotAfter(a, b) == a.sec < b.sec \/ (a.sec = b.sec /\ a.usec <= b.usec)

\* C18: a favorites listing holds only favorite entries of the user asked
\* for, at most limit of them, and runs from the newest created_at to the
\* oldest when newest_first is set and from the oldest to the newest when
\* it is not
C18_FavoritesListing ==
    \A r \in RequestsOf(returned, "favorites") :
        r.status = 200
        => /\ Len(r.entries) <= r.limit
           /\ \A k \in 1..Len(r.entries) :
                  /\ r.entries[k].is_favorite = TRUE
                  /\ r.entries[k].user_id = r.user_id
           /\ \A a, b \in 1..Len(r.entries) :
                  a < b
                  => IF r.newest_first
                     THEN C18_NotAfter(C18_CreatedAt(r.entries[b]), C18_CreatedAt(r.entries[a]))
                     ELSE C18_NotAfter(C18_CreatedAt(r.entries[a]), C18_CreatedAt(r.entries[b]))

\* C19: a by-mood listing whose mood is none of the nine moods is answered
\* 400, and no query of the store is made for it
C19_InvalidMoodRejected ==
    \A r \in RequestsOf(returned, "mood") :
        r.mood \notin MoodVocabulary
        => /\ r.status = 400
           /\ r.log = <<>>
           /\ r.entries = <<>>

\* C19 witness: a by-mood listing with a valid limit and the mood 'furious',
\* for a user who has entries, was answered 400 for its mood
C19_Witness ==
    \E r \in RequestsOf(returned, "mood") :
        /\ r.mood = Furious
        /\ r.limit_arg = Str(<<"2">>)
        /\ r.status = 400
        /\ r.error = "Invalid mood"
        /\ r.log = <<>>
        /\ \E k \in DOMAIN journal_table : k[1] = r.user_id

\* C20: getById raises nothing, returns the entry stored under its
\* (user_id, entry_id) when there is one, and not-found when there is none
C20_GetByIdContract ==
    [][ \A r \in RequestsOf(returned', "get") :
            AnsweredNow(r)
            => /\ r.result # "raised"
               /\ IF KeyOf(r) \in DOMAIN journal_table
                  THEN /\ r.result = "entry"
                       /\ r.status = 200
                       /\ r.item = journal_table[KeyOf(r)]
                  ELSE /\ r.result = "None"
                       /\ r.status = 404 ]_vars

\* a is before b on the clock
Earlier(a, b) == C18_NotAfter(a, b) /\ a # b

\* C21: a listing of a user's entries that is answered 200 holds at most
\* limit entries, all of that user, in the order of their creation times,
\* descending when newest_first is set and ascending when it is not; when
\* the query was answered, no entry left out is newer (resp. older) than
\* one that is listed
C21_UserListing ==
    \A r \in RequestsOf(returned, "entries") :
        r.status = 200
        => /\ Len(r.entries) <= r.limit
           /\ \A k \in 1..Len(r.entries) : r.entries[k].user_id = r.user_id
           /\ \A a, b \in 1..Len(r.entries) :
                  a < b
                  => IF r.newest_first
                     THEN C18_NotAfter(C18_CreatedAt(r.entries[b]), C18_CreatedAt(r.entries[a]))
                     ELSE C18_NotAfter(C18_CreatedAt(r.entries[a]), C18_CreatedAt(r.entries[b]))
           /\ r.log[1].ok
              => \A k \in DOMAIN journal_table :
                     (k[1] = r.user_id /\ \A a \in 1..Len(r.entries) : r.entries[a] # journal_table[k])
                     => \A a \in 1..Len(r.entries) :
                            IF r.newest_first
                            THEN C18_NotAfter(C18_CreatedAt(journal_table[k]),
                                              C18_CreatedAt(r.entries[a]))
                            ELSE C18_NotAfter(C18_CreatedAt(r.entries[a]),
                                              C18_CreatedAt(journal_table[k]))

\* C22: of two stored entries of one user, the one with the earlier
\* created_at has the smaller entry_id in the order of the sort key
C22_IdsSortByCreationTime ==
    \A k1, k2 \in DOMAIN journal_table :
        ( /\ k1[1] = k2[1]
          /\ Earlier(C18_CreatedAt(journal_table[k1]), C18_CreatedAt(journal_table[k2])) )
        => StrLess(k1[2], k2[2])

\* C23: the entry write of a save that goes through meets no stored entry
\* under its key, and the store holds one entry more after it
C23_SaveNeverOverwrites ==
    [][ \A o \in RequestsOf(inflight', "save") :
            AdvancedNow(o)
            => /\ KeyOf(o) \notin DOMAIN journal_table
               /\ Cardinality(DOMAIN journal_table')
                      = Cardinality(DOMAIN journal_table) + 1 ]_vars

(***************************************************************************)
(* Properties of the user and auth endpoints.                              *)
(***************************************************************************)
\* the user records of a table with the given email
UsersWithEmail(table, email) ==
    {u \in DOMAIN table : "email" \in DOMAIN table[u] /\ table[u].email = email}

\* the answered requests that created a user with the given email
CreatedFor(email) ==
    {r \in RequestsOf(returned, "register") \cup RequestsOf(returned, "create_user") :
        r.status = 200 /\ r.email = email}

\* C24: in every state at most one user record has a given email, and of
\* the requests that carried it at most one was answered with a new user,
\* whatever the interleaving; stated for the behaviours in which no store
\* call has failed
C24_EmailUnique ==
    FailedCalls(inflight) + FailedCalls(returned) = 0
    => \A email \in {EmailNorm, EmailRaw} :
           /\ Cardinality(UsersWithEmail(users_table, email)) <= 1
           /\ BagCardinality([r \in CreatedFor(email) |-> CopiesIn(r, returned)]) <= 1

\* C25: a register request stores its user under the normalized email with
\* a bcrypt hash that verifies the password, never the password; a password
\* shorter than 6 is answered 400 and a request for an email that a user
\* already has is answered 409, both without a change of the users table;
\* so a register that is answered with a new user met no user with its
\* email when it wrote
C25_RegisterContract ==
    [][ \A r \in RequestsOf(returned', "register") :
            AnsweredNow(r)
            => /\ (r.email_arg # None /\ r.password # <<>> /\ Len(r.password) < MinPasswordLength)
                  => /\ r.status = 400
                     /\ users_table' = users_table
               /\ r.status = 409 => users_table' = users_table
               /\ (r.email_arg # None /\ UsersWithEmail(users_table, NormalizeEmail(r.email_arg.s)) # {})
                  => /\ r.status \in {400, 409, 500}
                     /\ users_table' = users_table
               /\ r.status = 200
                  => /\ r.user_id \in DOMAIN users_table'
                     /\ users_table'[r.user_id].email = NormalizeEmail(r.email_arg.s)
                     /\ users_table'[r.user_id].password_hash.alg = "bcrypt"
                     /\ users_table'[r.user_id].password_hash
                            = HashPw(r.password, users_table'[r.user_id].password_hash.salt)
      ]_vars

\* C26: a login gets past the password check only for a user record with
\* the normalized email that is active and whose hash verifies the
\* password; a login answered 200 has set last_login to the time of its
\* update; a login that fails is answered 401 and changes no last_login
C26_LoginContract ==
    [][ /\ \A o \in RequestsOf(inflight', "login") :
               AdvancedNow(o)
               => \E u \in DOMAIN users_table :
                      /\ users_table[u].email = NormalizeEmail(o.email_arg.s)
                      /\ ("is_active" \in DOMAIN users_table[u] => users_table[u].is_active)
                      /\ "password_hash" \in DOMAIN users_table[u]
                      /\ users_table[u].password_hash
                             = HashPw(o.password, users_table[u].password_hash.salt)
                      /\ o.user_id = u
        /\ \A r \in RequestsOf(returned', "login") :
               AnsweredNow(r)
               => /\ r.status = 200
                     => users_table'[r.user_id].last_login
                            \in {Timestamp(ts) : ts \in UpdateTimes}
                  /\ (r.status # 200 /\ r.email_arg # None /\ r.password # <<>>)
                     => /\ r.status = 401
                        /\ users_table' = users_table
      ]_vars

\* C27: a change-password request replaces the password_hash of its user
\* only if its current password verifies against the hash the store holds
\* for that user when it is replaced and its new password has at least 6
\* characters; a change-password request that is refused changes nothing
C27_ChangePasswordContract ==
    [][ \A r \in RequestsOf(returned', "change_password") :
            AnsweredNow(r)
            => /\ r.status = 200
                  => /\ ( /\ r.user_id \in DOMAIN users_table
                          /\ "password_hash" \in DOMAIN users_table[r.user_id] )
                        => users_table[r.user_id].password_hash
                               = HashPw(r.password, users_table[r.user_id].password_hash.salt)
                     /\ Len(r.new_password) >= MinPasswordLength
                     /\ users_table'[r.user_id].password_hash
                            = HashPw(r.new_password, users_table'[r.user_id].password_hash.salt)
               /\ r.status # 200 => users_table' = users_table
      ]_vars

\* C28: a listing of entries, of favorites or by mood whose limit is not
\* the text of an integer is answered 400, and no query of the store is
\* made for it
C28_InvalidLimitRejected ==
    \A r \in RequestsOf(returned, "entries") \cup RequestsOf(returned, "favorites")
               \cup RequestsOf(returned, "mood") :
        (r.limit_arg # None /\ IntRaises(r.limit_arg))
        => /\ r.status = 400
           /\ r.log = <<>>
           /\ r.entries = <<>>

RECURSIVE C29_Tokens(_)
\* the whitespace-delimited tokens of s, from left to right
C29_Tokens(s) ==
    IF s = <<>> THEN <<>>
    ELSE IF Head(s) \in Whitespace THEN C29_Tokens(Tail(s))
    ELSE LET stops == {k \in 1..Len(s) : s[k] \in Whitespace}
             n == IF stops = {} THEN Len(s) + 1
                  ELSE CHOOSE k \in stops : \A j \in stops : k <= j
         IN  <<SubSeq(s, 1, n - 1)>> \o C29_Tokens(SubSeq(s, n, Len(s)))

\* 'N min'
C29_Minutes(n) == Digits(n) \o MinSuffix

\* C29: every persisted entry has the number of whitespace-delimited tokens
\* of its story_content as word_count and max(1, word_count // 200) minutes
\* as estimated_read_time, which is 1 minute below 400 words; the
\* word_count of the createEntry response is the persisted one
C29_WordCountAndReadTime ==
    /\ \A k \in DOMAIN journal_table :
           LET e == journal_table[k]
               wc == Len(C29_Tokens(e.story_content.s))
           IN  /\ e.word_count = wc
               /\ e.estimated_read_time
                      = C29_Minutes(IF wc < 2 * WordsPerMinute THEN 1
                                    ELSE wc \div WordsPerMinute)
    /\ pc = "Done" => response.metadata.word_count = WrittenEntry.word_count
    /\ \A wc \in {0, 1, WordsPerMinute - 1, WordsPerMinute, WordsPerMinute + 1,
                  2 * WordsPerMinute - 1} :
           EstimatedReadTime(wc) = C29_Minutes(1)
    /\ EstimatedReadTime(2 * WordsPerMinute) = C29_Minutes(2)
    /\ EstimatedReadTime(3 * WordsPerMinute - 1) = C29_Minutes(2)
    /\ EstimatedReadTime(3 * WordsPerMinute) = C29_Minutes(3)

\* C29 witness: a request succeeded for the story 'We ran\nfar  away.', whose
\* four words are set apart by a space, a newline and two spaces; the entry
\* holds word_count 4 and '1 min', and the response holds word_count 4
C29_Witness ==
    /\ pc = "Done"
    /\ WrittenEntry.story_content = Str(Story1)
    /\ WrittenEntry.word_count = 4
    /\ WrittenEntry.estimated_read_time = C29_Minutes(1)
    /\ response.metadata.word_count = 4

\* what getById returns for the entry of the response, the store answering
C30_Read == get_entry_by_id(journal_table, user_id, response.entry_id, TRUE)

\* C30: after a createEntry that succeeded, getById of its user_id and
\* entry_id returns an entry with the title, story_content, tone, images and
\* sentiment_analysis of the response, with the primary mood of that
\* sentiment record as primary_mood, and with is_favorite false
C30_RoundTrip ==
    pc = "Done"
    => /\ C30_Read # NoItem
       /\ C30_Read.title = response.title
       /\ C30_Read.story_content = response.story_content
       /\ C30_Read.tone = response.metadata.tone
       /\ C30_Read.images = response.images
       /\ C30_Read.sentiment_analysis = response.sentiment_analysis
       /\ IsDict(response.sentiment_analysis)
       /\ HasKey(response.sentiment_analysis, "primary_mood")
       /\ C30_Read.primary_mood = response.sentiment_analysis.d["primary_mood"]
       /\ C30_Read.is_favorite = FALSE

\* 'img_k'
C31_ImageId(k) == <<"i", "m", "g", "_">> \o Digits(k)

\* the images sequence holds one record for each submitted image, in
\* submission order, with the caption the Captioner returned for it
C31_ImagesOf(images) ==
    /\ Len(images) = Len(req.images)
    /\ \A k \in 1..Len(req.images) :
           /\ images[k].upload_order = k
           /\ images[k].image_id = C31_ImageId(k)
           /\ calls[k].tool = "Captioner"
           /\ calls[k].arg = req.images[k].image_data
           /\ images[k].caption = calls[k].result

\* C31: after a createEntry that succeeded with n images, the persisted and
\* the returned images sequence have n records, and the k-th record has
\* upload_order k, image_id 'img_k' and the caption the Captioner produced
\* for the k-th submitted image
C31_ImageRecords ==
    pc = "Done"
    => /\ C31_ImagesOf(response.images)
       /\ C31_ImagesOf(WrittenEntry.images)

\* C31 witness: a request with two different images, which got two
\* different captions, succeeded
C31_Witness ==
    /\ pc = "Done"
    /\ Len(req.images) = 2
    /\ req.images[1].image_data # req.images[2].image_data
    /\ response.images[1].caption # response.images[2].caption
    /\ WrittenEntry.images[2].upload_order = 2

\* the fields of an entry other than is_favorite and updated_at
C32_FrameFields(e) == DOMAIN e \ {"is_favorite", "updated_at"}

\* C32: a setFavorite that returns true sets is_favorite of its entry to
\* the value asked for and updated_at to the time of the update, and leaves
\* created_at and every other field of that entry, every other entry and
\* every total_entries as they were; a setFavorite that returns not-found
\* changes nothing in the store
C32_FavoriteFrame ==
    [][ \A r \in RequestsOf(returned', "favorite") :
            AnsweredNow(r)
            => /\ r.result = "True"
                  => /\ KeyOf(r) \in DOMAIN journal_table
                     /\ DOMAIN journal_table' = DOMAIN journal_table
                     /\ journal_table'[KeyOf(r)].is_favorite = r.is_favorite
                     /\ \E ts \in Timestamps :
                            journal_table'[KeyOf(r)].updated_at = Timestamp(ts)
                     /\ DOMAIN journal_table'[KeyOf(r)] = DOMAIN journal_table[KeyOf(r)]
                     /\ \A f \in C32_FrameFields(journal_table[KeyOf(r)]) :
                            journal_table'[KeyOf(r)][f] = journal_table[KeyOf(r)][f]
                     /\ \A k \in DOMAIN journal_table \ {KeyOf(r)} :
                            journal_table'[k] = journal_table[k]
                     /\ users_table' = users_table
               /\ r.result = "False" => UNCHANGED store_vars ]_vars

\* C32 witness: a setFavorite has returned true for an entry that is now a
\* favorite with an updated_at that is no longer its created_at, while the
\* store holds another entry that is no favorite and whose updated_at is
\* its created_at
C32_Witness ==
    \E r \in RequestsOf(returned, "favorite") :
        /\ r.result = "True"
        /\ r.is_favorite
        /\ KeyOf(r) \in DOMAIN journal_table
        /\ journal_table[KeyOf(r)].is_favorite
        /\ journal_table[KeyOf(r)].updated_at # journal_table[KeyOf(r)].created_at
        /\ \E k \in DOMAIN journal_table \ {KeyOf(r)} :
               /\ ~journal_table[k].is_favorite
               /\ journal_table[k].updated_at = journal_table[k].created_at
        /\ TotalEntries(users_table, r.user_id) >= 1

\* the entry ids of a user
C33_IdsOf(uid) == {k[2] : k \in {x \in DOMAIN journal_table : x[1] = uid}}

\* the ids of the rows that the query of a favorites listing reads: the
\* limit * 2 ids of the user that come first in the direction of the query
C33_RowsRead(r) ==
    LET ids == C33_IdsOf(r.user_id)
        Before(a, b) == IF r.newest_first THEN StrLess(b, a) ELSE StrLess(a, b)
    IN  {x \in ids : Cardinality({y \in ids : Before(y, x)}) < r.limit * 2}

\* the favorite entries among a set of ids of a user
C33_Favorites(uid, ids) == {x \in ids : journal_table[<<uid, x>>].is_favorite = TRUE}

\* a favorites listing whose query went through
C33_Listed(r) ==
    r.status = 200 /\ r.limit >= 1 /\ r.log = <<[call |-> "query", ok |-> TRUE]>>

\* C33: a favorites listing returns favorites among the limit * 2 rows that
\* its query reads, as many of them as there are up to limit, whatever the
\* number of favorites that the user has beyond these rows
C33_FavoritesUnderFetch ==
    \A r \in RequestsOf(returned, "favorites") :
        C33_Listed(r)
        => LET found == C33_Favorites(r.user_id, C33_RowsRead(r))
           IN  /\ \A k \in 1..Len(r.entries) : r.entries[k].entry_id \in found
               /\ Len(r.entries)
                      = IF Cardinality(found) < r.limit THEN Cardinality(found) ELSE r.limit

\* C33 witness: a user has at least limit favorite entries and the favorites
\* listing of that user with that limit has returned fewer than limit
C33_Witness ==
    \E r \in RequestsOf(returned, "favorites") :
        /\ C33_Listed(r)
        /\ Cardinality(C33_Favorites(r.user_id, C33_IdsOf(r.user_id))) >= r.limit
        /\ Len(r.entries) < r.limit

\* the deletes of a key that have removed the entry: those that go on to the
\* counter and those that have returned true
C34_Removers(key) ==
    {d \in RequestsOf(inflight, "delete") : KeyOf(d) = key /\ d.step = "update_item"}
    \cup {d \in RequestsOf(returned, "delete") : KeyOf(d) = key /\ d.result = "True"}

\* the number of requests in a set, with their copies in both bags
C34_Copies(set) ==
    BagCardinality([r \in set |-> CopiesIn(r, inflight) + CopiesIn(r, returned)])

\* C34: of the deletes that race for one stored entry one removes it and
\* returns true: a delete gets past its delete_item only in a step that
\* takes the stored entry out; a delete that found the entry and whose
\* delete_item then meets no entry returns not-found (false, 404), raises
\* nothing, changes nothing, and another delete has removed the entry; and
\* total_entries goes down by one at most, in the answer of a delete that
\* returns true
C34_DeleteRace ==
    [][ /\ \A o \in RequestsOf(inflight', "delete") :
               (AdvancedNow(o) /\ o.step = "update_item")
               => /\ KeyOf(o) \in DOMAIN journal_table
                  /\ KeyOf(o) \notin DOMAIN journal_table'
        /\ \A r \in RequestsOf(returned', "delete") :
               AnsweredNow(r)
               => /\ ( /\ Len(r.log) = 2
                       /\ r.log[1].ok
                       /\ r.log[2].ok
                       /\ KeyOf(r) \notin DOMAIN journal_table )
                     => /\ r.result = "False"
                        /\ r.status = 404
                        /\ UNCHANGED store_vars
                        /\ C34_Removers(KeyOf(r)) # {}
                  /\ r.result = "True"
                     => /\ journal_table' = journal_table
                        /\ TotalEntries(users_table', r.user_id)
                               \in {TotalEntries(users_table, r.user_id) - 1,
                                    TotalEntries(users_table, r.user_id)}
                  /\ r.result # "True" => users_table' = users_table ]_vars

\* C34 witness: two deletes have found the same stored entry; one has
\* removed it and returned true, the other has returned not-found after its
\* delete_item met no entry; the counter of the owner went from 1 to 0
C34_Witness ==
    \E d1, d2 \in RequestsOf(returned, "delete") :
        /\ KeyOf(d1) = KeyOf(d2)
        /\ d1.result = "True"
        /\ d2.result = "False"
        /\ d2.status = 404
        /\ d2.log = <<[call |-> "get_item", ok |-> TRUE],
                      [call |-> "delete_item:ConditionalCheckFailed", ok |-> TRUE]>>
        /\ KeyOf(d1) \notin DOMAIN journal_table
        /\ TotalEntries(users_table, d1.user_id) = 0
        /\ \E s \in RequestsOf(returned, "save") : KeyOf(s) = KeyOf(d1) /\ s.status = 200

\* C35: setFavorite creates no entry: the answer of a setFavorite leaves the
\* set of stored keys as it was, a key comes into the store only by the
\* put_item of a save, and every stored entry holds the fields a save
\* writes; so an entry that a delete has removed is not brought back by a
\* setFavorite that had found it before
C35_NoResurrection ==
    [][ /\ \A r \in RequestsOf(returned', "favorite") :
               AnsweredNow(r) => DOMAIN journal_table' = DOMAIN journal_table
        /\ \A key \in DOMAIN journal_table' \ DOMAIN journal_table :
               \E s \in RequestsOf(inflight', "save") : AdvancedNow(s) /\ KeyOf(s) = key
        /\ \A key \in DOMAIN journal_table' :
               {"created_at", "title", "story_content"} \subseteq DOMAIN journal_table'[key]
      ]_vars

\* C35 witness: a setFavorite had found the entry, a delete has removed it,
\* the setFavorite has then returned not-found; every operation is
\* complete and getById finds no entry
C35_Witness ==
    \E f \in RequestsOf(returned, "favorite"), d \in RequestsOf(returned, "delete") :
        /\ KeyOf(f) = KeyOf(d)
        /\ d.result = "True"
        /\ Len(f.log) = 2
        /\ f.log[1] = [call |-> "get_item", ok |-> TRUE]
        /\ f.result = "False"
        /\ inflight = EmptyBag
        /\ get_entry_by_id(journal_table, f.user_id, f.entry_id, TRUE) = NoItem

\* the entries of a user that the store holds
C36_EntriesOf(uid) == {k \in DOMAIN journal_table : k[1] = uid}

\* no two saves have drawn the same entry_id for the same user
C36_DistinctSaves ==
    \A s \in RequestsOf(returned, "save") :
        /\ CopiesIn(s, returned) = 1
        /\ \A t \in RequestsOf(returned, "save") : KeyOf(t) = KeyOf(s) => t = s

\* C36: when no store call has failed and every request is complete, the
\* total_entries of each user is the number of entries of that user in the
\* store; stated for the behaviours in which the saves have drawn distinct
\* entry ids
C36_CounterMatchesStore ==
    ( /\ inflight = EmptyBag
      /\ FailedCalls(returned) = 0
      /\ C36_DistinctSaves )
    => \A uid \in {User1, User2} :
           TotalEntries(users_table, uid) = Cardinality(C36_EntriesOf(uid))

\* C37: a delete or a setFavorite returns not-found only in a step in which
\* the store holds no entry under its key: a failure of the read of the
\* existence check is not reported as not-found while the entry is stored
C37_NotFoundMeansAbsent ==
    [][ \A r \in RequestsOf(returned', "delete") \cup RequestsOf(returned', "favorite") :
            (AnsweredNow(r) /\ r.result = "False")
            => /\ r.status = 404
               /\ KeyOf(r) \notin DOMAIN journal_table ]_vars

\* C38: no answer of an endpoint that returns a user record (login, get user
\* profile, register, create user) carries the password_hash
C38_NoCredentialInResponse ==
    \A r \in BagToSet(returned) :
        (r.op \in {"login", "get_user", "register", "create_user"} /\ r.body # NoItem)
        => "password_hash" \notin DOMAIN r.body

\* C39: every record of the users table has an email and a created_at, the
\* attributes that registration and user creation write, and every stored
\* entry is owned by a user that has such a record: a createEntry or a delete
\* for a user_id without a User record creates no record and persists no entry
C39_UsersAreRegistered ==
    /\ \A u \in DOMAIN users_table :
           {"email", "created_at"} \subseteq DOMAIN users_table[u]
    /\ \A key \in DOMAIN journal_table :
           /\ key[1] \in DOMAIN users_table
           /\ "email" \in DOMAIN users_table[key[1]]

====
